---- MODULE Spec2Model ----
(***************************************************************************)
(* Model of the Doc/index.html catalog tools: merge, remove, sync,         *)
(* connect, reassign (relocate), list-unreferenced and delete-orphans.     *)
(*                                                                         *)
(* Text is modelled as a sequence of lexical tokens; an offset is a token  *)
(* index (0-based, half-open spans, as Python slices).  A string (a file   *)
(* name, a data-path, a category name) is a sequence of atoms, an atom     *)
(* being an indivisible piece of text.  The atoms are chosen so that none  *)
(* occurs inside another one that a substring test can meet, so that a     *)
(* substring test on atoms agrees with the test on the characters.         *)
(***************************************************************************)
EXTENDS Integers, Sequences, FiniteSets, TLC

\* ------------------------------------------------------------------ bounds
MaxSections == 3
MaxRuns == 2
MaxClock == 2
MaxFiles == 2
MaxEntries == 3
MaxPlan == 2

\* ------------------------------------------------------- generic helpers
Min(a, b) == IF a < b THEN a ELSE b
Max(a, b) == IF a > b THEN a ELSE b

\* Python s[a:b] (0-based, half-open, clamped to the length of s).
Slice(s, a, b) ==
  LET lo == Max(a, 0)
      hi == Min(b, Len(s))
  IN  IF lo >= hi THEN <<>> ELSE SubSeq(s, lo + 1, hi)

\* Python s[a:]
SliceFrom(s, a) == Slice(s, a, Len(s))

\* Python s.find(sub): the first offset at which sub occurs in s, or -1.
Find(s, sub) ==
  LET hits == {i \in 0..(Len(s) - Len(sub)) : Slice(s, i, i + Len(sub)) = sub}
  IN  IF hits = {} THEN 0 - 1
      ELSE CHOOSE i \in hits : \A j \in hits : i <= j

\* Python "sub in s"
Contains(s, sub) == Find(s, sub) >= 0

RECURSIVE Concat(_)
\* Python ''.join(list)
Concat(ss) == IF ss = <<>> THEN <<>> ELSE Head(ss) \o Concat(Tail(ss))

\* The elements of a sequence, as a set.
Range(s) == {s[i] : i \in 1..Len(s)}

\* ------------------------------------------------------------------ tokens
\* One lexical token of the catalog text.  k is its kind:
\*   "sec"  <section class="category" ...>        "esec"  </section>
\*   "h2"   <h2>name</h2>                         "ul"    <ul class="files">
\*   "eul"  </ul>                                 "li"    <li class="file" ...>...</li>
\*   "ws"   white space                           "end"   </div></aside>
\*   "txt"  any other markup                      "state" <!-- DMS_STATE ... -->
\* A state block holds the paths of its processed_files, or is not valid JSON.
Tok(kind) ==
  [k |-> kind, name |-> <<>>, path |-> <<>>, pdf |-> <<>>, tags |-> <<>>, files |-> {},
   valid |-> TRUE]
H2(n) == [Tok("h2") EXCEPT !.name = n]
Li(p, q, t) == [Tok("li") EXCEPT !.path = p, !.pdf = q, !.tags = t]
WS == Tok("ws")
State(fs, ok) == [Tok("state") EXCEPT !.files = fs, !.valid = ok]

\* ------------------------------------------------------------ string atoms
\* str.lower() on one atom.
LowerAtom(a) ==
  CASE a = "Guides" -> "guides"
    [] a = "Docs" -> "docs"
    [] a = "New" -> "new"
    [] a = "Uncategorized" -> "uncategorized"
    [] a = "Y" -> "y"
    [] a = "My" -> "my"
    [] OTHER -> a

\* str.lower()
Lower(s) == [i \in 1..Len(s) |-> LowerAtom(s[i])]

RECURSIVE LStrip(_)
LStrip(s) == IF s # <<>> /\ Head(s) = " " THEN LStrip(Tail(s)) ELSE s

RECURSIVE RStrip(_)
RStrip(s) ==
  IF s # <<>> /\ s[Len(s)] = " " THEN RStrip(SubSeq(s, 1, Len(s) - 1)) ELSE s

\* str.strip()
Strip(s) == LStrip(RStrip(s))

RECURSIVE Collapse(_)
\* ' '.join(s.split()) on a stripped string: runs of blanks become one blank.
Collapse(s) ==
  IF Len(s) < 2 THEN s
  ELSE IF s[1] = " " /\ s[2] = " " THEN Collapse(Tail(s))
  ELSE <<s[1]>> \o Collapse(Tail(s))

\* normalize_name: ' '.join(name.strip().lower().split())
normalize_name(name) == Collapse(Lower(Strip(name)))

\* html.escape on one atom: & becomes &amp; (the other special characters
\* do not occur in the model).
EscapeAtom(a) == IF a = "&" THEN <<"&", "amp;">> ELSE <<a>>

RECURSIVE html_escape(_)
\* html.escape(s)
html_escape(s) == IF s = <<>> THEN <<>> ELSE EscapeAtom(Head(s)) \o html_escape(Tail(s))

RECURSIVE html_unescape(_)
\* html.unescape(s)
html_unescape(s) ==
  IF s = <<>> THEN <<>>
  ELSE IF Len(s) >= 2 /\ s[1] = "&" /\ s[2] = "amp;" THEN <<"&">> \o html_unescape(Tail(Tail(s)))
  ELSE <<Head(s)>> \o html_unescape(Tail(s))

\* str.upper() on a file extension.
UpperAtom(a) ==
  CASE a = "pdf" -> "PDF"
    [] a = "txt" -> "TXT"
    [] a = "md" -> "MD"
    [] a = "docx" -> "DOCX"
    [] OTHER -> a

\* The offset of the dot that starts the suffix of a file name, or -1: the
\* last dot, unless it is the first or the last character (pathlib).
SuffixDot(name) ==
  LET dots == {i \in 1..(Len(name) - 2) : name[i + 1] = "."}
  IN  IF dots = {} THEN 0 - 1 ELSE CHOOSE i \in dots : \A j \in dots : i >= j

\* Path.stem
Stem(name) == IF SuffixDot(name) < 0 THEN name ELSE Slice(name, 0, SuffixDot(name))

\* Path.suffix.lower().lstrip('.')
Ext(name) == IF SuffixDot(name) < 0 THEN <<>> ELSE SliceFrom(name, SuffixDot(name) + 1)

\* str.startswith
StartsWith(s, prefix) == Slice(s, 0, Len(prefix)) = prefix

\* ------------------------------------------------- merge: extract_sections
\* The first offset >= from of a token of the given kind, or -1.
FirstTok(text, kind, from) ==
  LET hits == {i \in from..(Len(text) - 1) : text[i + 1].k = kind}
  IN  IF hits = {} THEN 0 - 1
      ELSE CHOOSE i \in hits : \A j \in hits : i <= j

\* The <li class="file"> blocks of a text, in order (LI_RE.findall).
LiBlocks(text) == SelectSeq(text, LAMBDA t : t.k = "li")

\* One <section class="category">...</section> block found at [start, end).
SectionOf(text, start, end) ==
  LET full == Slice(text, start, end)
      h2 == FirstTok(full, "h2", 0)
      ul == FirstTok(full, "ul", 0)
      eul == IF ul < 0 THEN 0 - 1 ELSE FirstTok(full, "eul", ul + 1)
      ulm == ul >= 0 /\ eul >= 0
  IN  [title |-> IF h2 < 0 THEN <<>> ELSE Strip(full[h2 + 1].name),
       full_html |-> full,
       start |-> start,
       end |-> end,
       has_ul |-> ulm,
       ul_close |-> IF ulm THEN eul ELSE 0 - 1,
       li_list |-> IF ulm THEN LiBlocks(Slice(full, ul + 1, eul)) ELSE <<>>]

RECURSIVE SectionsFrom(_, _)
\* SECTION_RE.finditer from offset pos: non-overlapping, non-greedy matches.
SectionsFrom(text, pos) ==
  LET s == FirstTok(text, "sec", pos)
      e == IF s < 0 THEN 0 - 1 ELSE FirstTok(text, "esec", s + 1)
  IN  IF s < 0 \/ e < 0 THEN <<>>
      ELSE <<SectionOf(text, s, e + 1)>> \o SectionsFrom(text, e + 1)

extract_sections(text) == SectionsFrom(text, 0)

\* ------------------------------------------------- merge: planning
\* DATA_PATH_RE.search(li): the data-path of an entry; <<>> stands for None.
DataPathOf(li) == li.path

\* The keys of the groups dict in insertion order.
RECURSIVE KeysInOrder(_, _)
KeysInOrder(sections, seen) ==
  IF sections = <<>> THEN <<>>
  ELSE LET key == normalize_name(Head(sections).title)
       IN  IF key \in seen THEN KeysInOrder(Tail(sections), seen)
           ELSE <<key>> \o KeysInOrder(Tail(sections), seen \cup {key})

\* groups[key]: the sections of one normalized name, in document order.
GroupOf(sections, key) ==
  SelectSeq(sections, LAMBDA s : normalize_name(s.title) = key)

\* dup_keys: the keys carried by more than one section.
DupKeys(sections) ==
  SelectSeq(KeysInOrder(sections, {}), LAMBDA k : Len(GroupOf(sections, k)) > 1)

\* existing_paths of the primary section.
PrimaryPaths(primary) ==
  {DataPathOf(primary.li_list[i]) : i \in 1..Len(primary.li_list)} \ {<<>>}

RECURSIVE ToAppend(_, _)
\* to_append: the entries of the other sections whose data-path is not yet
\* in existing_paths; an entry without data-path is always appended.
ToAppend(lis, existing) ==
  IF lis = <<>> THEN <<>>
  ELSE LET li == Head(lis)
           path == DataPathOf(li)
       IN  IF path # <<>> /\ path \in existing
             THEN ToAppend(Tail(lis), existing)
             ELSE <<li>> \o ToAppend(Tail(lis), IF path # <<>> THEN existing \cup {path} ELSE existing)

\* The entries of a list of sections, concatenated.
RECURSIVE AllLis(_)
AllLis(secs) == IF secs = <<>> THEN <<>> ELSE Head(secs).li_list \o AllLis(Tail(secs))

\* re.sub(UL_RE, ..., primary_block, count=1): to_append goes before the </ul>
\* of the first files list; a block without files list is returned unchanged.
NewPrimary(primary, to_append) ==
  IF primary.has_ul
    THEN Slice(primary.full_html, 0, primary.ul_close) \o to_append
           \o SliceFrom(primary.full_html, primary.ul_close)
    ELSE primary.full_html

RemoveEdit(sec) ==
  [typ |-> "remove", start |-> sec.start, end |-> sec.end, old |-> sec.full_html, new |-> <<>>]

ReplaceEdit(sec, new) ==
  [typ |-> "replace", start |-> sec.start, end |-> sec.end, old |-> sec.full_html, new |-> new]

\* A merge that appends the entries to the first section of the group and
\* leaves the other sections where they are.
GroupEditsKeepOthers(group) ==
  LET primary == Head(group)
      to_append == ToAppend(AllLis(Tail(group)), PrimaryPaths(primary))
  IN  IF to_append = <<>> THEN <<>>
      ELSE <<ReplaceEdit(primary, NewPrimary(primary, to_append))>>

\* The edits of one duplicate group.
GroupEdits(group) ==
  LET primary == Head(group)
      others == Tail(group)
      to_append == ToAppend(AllLis(others), PrimaryPaths(primary))
      removes == [i \in 1..Len(others) |-> RemoveEdit(others[i])]
  IN  IF to_append = <<>> THEN removes
      ELSE <<ReplaceEdit(primary, NewPrimary(primary, to_append))>> \o removes

RECURSIVE EditsOf(_, _)
EditsOf(sections, keys) ==
  IF keys = <<>> THEN <<>>
  ELSE GroupEdits(GroupOf(sections, Head(keys))) \o EditsOf(sections, Tail(keys))

RECURSIVE InsertDesc(_, _)
\* Insert e into a list sorted by start descending, after the elements of
\* equal start (sorted(..., reverse=True) keeps the order of equal keys).
InsertDesc(sorted, e) ==
  IF sorted = <<>> THEN <<e>>
  ELSE IF Head(sorted).start >= e.start THEN <<Head(sorted)>> \o InsertDesc(Tail(sorted), e)
  ELSE <<e>> \o sorted

RECURSIVE SortDesc(_)
\* sorted(edits, key=start, reverse=True)
SortDesc(edits) ==
  IF edits = <<>> THEN <<>>
  ELSE InsertDesc(SortDesc(SubSeq(edits, 1, Len(edits) - 1)), edits[Len(edits)])

\* edits_sorted of merge_sections / merge_impl.
MergePlan(text) ==
  LET sections == extract_sections(text)
  IN  SortDesc(EditsOf(sections, DupKeys(sections)))

\* An apply loop that trusts the recorded span and never searches.
ApplyEditAtSpan(new_text, e) ==
  IF e.typ = "replace" THEN Slice(new_text, 0, e.start) \o e.new \o SliceFrom(new_text, e.end)
  ELSE Slice(new_text, 0, e.start) \o SliceFrom(new_text, e.end)

\* One iteration of the apply loop: the buffer after edit e.
ApplyEdit(new_text, e) ==
  LET snippet == Slice(new_text, e.start, e.end)
      found_at == Find(new_text, e.old)
      sidx == IF snippet = e.old THEN e.start ELSE found_at
      eidx == IF snippet = e.old THEN e.end ELSE found_at + Len(e.old)
  IN  IF snippet # e.old /\ found_at < 0 THEN new_text
      ELSE IF e.typ = "replace" THEN Slice(new_text, 0, sidx) \o e.new \o SliceFrom(new_text, eidx)
      ELSE Slice(new_text, 0, sidx) \o SliceFrom(new_text, eidx)

RECURSIVE ApplyAll(_, _)
ApplyAll(text, edits) ==
  IF edits = <<>> THEN text ELSE ApplyAll(ApplyEdit(text, Head(edits)), Tail(edits))

\* merge_sections(text)[2]: the merged text.
merge_sections(text) == ApplyAll(text, MergePlan(text))

\* ------------------------------------------------- remove: planning
\* re.search(pat, s) for a pattern that is a literal piece of text.
ReSearch(pat, s) == Contains(s, pat)

\* li_matches(li_html, patterns)
li_matches(li, patterns) ==
  \E pat \in patterns : ReSearch(pat, li.path) \/ ReSearch(pat, li.pdf)

\* to_remove: for every matching entry the span of the FIRST occurrence of
\* its text in the catalog (txt.find(li)).
ToRemove(txt, patterns) ==
  LET hit == SelectSeq(LiBlocks(txt), LAMBDA li : li_matches(li, patterns))
  IN  [i \in 1..Len(hit) |->
         [typ |-> "cut", start |-> Find(txt, <<hit[i]>>),
          end |-> Find(txt, <<hit[i]>>) + 1, old |-> <<hit[i]>>, new |-> <<>>]]

\* sorted(to_remove, key=start, reverse=True)
RemovePlan(txt, patterns) == SortDesc(ToRemove(txt, patterns))

\* new_txt[:start] + new_txt[end:], with no look at what the span holds.
CutEdit(new_txt, e) == Slice(new_txt, 0, e.start) \o SliceFrom(new_txt, e.end)

\* ------------------------------------------------- sync: parsing
\* re.findall(r'data-path="([^"]+)"', text): the non-empty data-paths.
DataPaths(txt) == {txt[i].path : i \in {j \in 1..Len(txt) : txt[j].k = "li"}} \ {<<>>}

\* re.findall(r'data-pdf="([^"]*)"', text)
DataPdfs(txt) == {txt[i].pdf : i \in {j \in 1..Len(txt) : txt[j].k = "li"}}

\* The first offset >= from of a token that is not white space, or -1.
FirstNonWs(txt, from) ==
  LET hits == {i \in from..(Len(txt) - 1) : txt[i + 1].k # "ws"}
  IN  IF hits = {} THEN 0 - 1
      ELSE CHOOSE i \in hits : \A j \in hits : i <= j

\* The category pattern matches at offset p: <section ...>, white space,
\* <h2>..</h2>, then anything up to the next <ul class="files">.
CatMatchAt(txt, p) ==
  /\ txt[p + 1].k = "sec"
  /\ LET h == FirstNonWs(txt, p + 1)
     IN  /\ h >= 0
         /\ txt[h + 1].k = "h2"
         /\ FirstTok(txt, "ul", h + 1) >= 0

RECURSIVE CatsFrom(_, _)
\* pattern.finditer from offset pos; a match without a later </ul> is skipped.
CatsFrom(txt, pos) ==
  LET starts == {p \in pos..(Len(txt) - 1) : CatMatchAt(txt, p)}
  IN  IF starts = {} THEN <<>>
      ELSE LET p == CHOOSE i \in starts : \A j \in starts : i <= j
               h == FirstNonWs(txt, p + 1)
               open == FirstTok(txt, "ul", h + 1) + 1
               close == FirstTok(txt, "eul", open)
               cat == [name |-> html_unescape(Strip(txt[h + 1].name)),
                       ul_open_index |-> open,
                       ul_close_index |-> close,
                       section_start |-> p]
           IN  (IF close < 0 THEN <<>> ELSE <<cat>>) \o CatsFrom(txt, open)

find_categories(txt) == CatsFrom(txt, 0)

\* ------------------------------------------------- sync: the scan
IndexName == <<"index", ".", "html">>

\* The name of a backup file.
BackupName(b) ==
  IndexName \o (IF b.kind = "bak" THEN <<".", "bak", ".">> ELSE <<".", "bak", ".", "delete", ".">>)
    \o <<ToString(b.ts)>>

\* The atoms of the file names in character order; a time stamp (digits)
\* comes after "." and before the letters.
AtomOrder ==
  <<"&", ".", "DS_Store", "INDEX", "_autogen_index", "bak", "delete", "docx", "html",
    "index", "md", "pdf", "q", "txt", "z", "~$">>

AtomRank(a) == CHOOSE i \in 1..Len(AtomOrder) : AtomOrder[i] = a

RECURSIVE NameLess(_, _)
\* a < b as strings.
NameLess(a, b) ==
  IF b = <<>> THEN FALSE
  ELSE IF a = <<>> THEN TRUE
  ELSE IF Head(a) = Head(b) THEN NameLess(Tail(a), Tail(b))
  ELSE AtomRank(Head(a)) < AtomRank(Head(b))

RECURSIVE SortedNames(_)
\* sorted(names)
SortedNames(S) ==
  IF S = {} THEN <<>>
  ELSE LET m == CHOOSE x \in S : \A y \in S \ {x} : NameLess(x, y)
       IN  <<m>> \o SortedNames(S \ {m})

BackupLess(a, b) ==
  \/ a.kind = "bak" /\ b.kind = "bak.delete"
  \/ a.kind = b.kind /\ a.ts < b.ts

RECURSIVE SortedBackups(_)
SortedBackups(S) ==
  IF S = {} THEN <<>>
  ELSE LET m == CHOOSE x \in S : \A y \in S \ {x} : BackupLess(x, y)
       IN  <<BackupName(m)>> \o SortedBackups(S \ {m})

\* sorted(doc_dir.iterdir()), files only, the catalog itself left out: the
\* user's files and, the catalog being kept in the document directory, the
\* backups written next to it.
DocListing(docs, bs) ==
  SortedNames({n \in docs : NameLess(n, IndexName)})
    \o SortedBackups({[kind |-> b.kind, ts |-> b.ts] : b \in bs})
    \o SortedNames({n \in docs : ~NameLess(n, IndexName)})

\* The names sync leaves out of the scan of the document directory.
SyncSkipped(name) ==
  name \in {IndexName, <<"INDEX", ".", "md">>, <<"_autogen_index", ".", "md">>,
            <<"index", ".", "html", ".", "bak">>}

\* pretty_path for a document and the path of a converted file.
RelMd(name) == <<"./", "md_outputs/">> \o name
RelOf(f) == IF f.dir = "doc" THEN <<"./">> \o f.name ELSE RelMd(f.name)

\* combined_paths: the documents, then the converted files.
CombinedPaths(docs, mds, bs) ==
  LET d == SelectSeq(DocListing(docs, bs), LAMBDA n : ~SyncSkipped(n))
      m == SortedNames(mds)
  IN  [i \in 1..Len(d) |-> [dir |-> "doc", name |-> d[i]]]
        \o [i \in 1..Len(m) |-> [dir |-> "md", name |-> m[i]]]

\* A file counts as referenced when its path is a data-path of the catalog
\* or its stem occurs inside some data-path.
SyncReferenced(f, existing_paths) ==
  \/ RelOf(f) \in existing_paths
  \/ \E ep \in existing_paths : Contains(ep, Stem(f.name))

\* unreferenced
Unreferenced(docs, mds, bs, txt) ==
  SelectSeq(CombinedPaths(docs, mds, bs), LAMBDA f : ~SyncReferenced(f, DataPaths(txt)))

\* ------------------------------------------------- list-unreferenced
\* The names list-unreferenced leaves out of its listing.
ListSkipped(name) ==
  name \in {IndexName, <<"INDEX", ".", "md">>, <<"_autogen_index", ".", "md">>}

\* files: the files of the document directory, then those of md_outputs.
ListedFiles(docs, mds, bs) ==
  LET d == SelectSeq(DocListing(docs, bs), LAMBDA n : ~ListSkipped(n))
      m == SortedNames(mds)
  IN  [i \in 1..Len(d) |-> [dir |-> "doc", name |-> d[i]]]
        \o [i \in 1..Len(m) |-> [dir |-> "md", name |-> m[i]]]

\* unref: the listed files, dotfiles and ~$ files left out, whose path is
\* neither a data-path nor a data-pdf of the catalog.
list_unreferenced_impl(docs, mds, bs, txt) ==
  SelectSeq(ListedFiles(docs, mds, bs),
            LAMBDA f : /\ ~StartsWith(f.name, <<".">>)
                       /\ ~StartsWith(f.name, <<"~$">>)
                       /\ RelOf(f) \notin (DataPaths(txt) \cup DataPdfs(txt)))

\* ------------------------------------------------- sync: one insertion
\* suggested: the first category called guides for a Markdown file, else the
\* first category, else Uncategorized.
Suggested(name, names) ==
  LET hits == {i \in 1..Len(names) : Lower(names[i]) = <<"guides">> /\ Ext(name) = <<"md">>}
  IN  IF hits # {} THEN names[CHOOSE i \in hits : \A j \in hits : i <= j]
      ELSE IF names # <<>> THEN names[1]
      ELSE <<"Uncategorized">>

\* The names the user may type for a new category.
NewNames == {<<"New">>}

\* What the user may answer to the category prompt: nothing (the suggested
\* category), 'n' and a new name, 'n' and no name, or the number of a category.
SyncChoices(names, suggested, yes) ==
  IF yes THEN {[cat |-> suggested, append |-> FALSE]}
  ELSE {[cat |-> suggested, append |-> FALSE], [cat |-> <<"Uncategorized">>, append |-> FALSE]}
         \cup {[cat |-> n, append |-> TRUE] : n \in NewNames}
         \cup {[cat |-> names[i], append |-> FALSE] : i \in 1..Len(names)}

\* tags = f"{ftype} · {chosen_cat}"
SyncTags(name, chosen_cat) ==
  (IF Ext(name) = <<>> THEN <<"file">> ELSE <<UpperAtom(Ext(name)[1])>>) \o <<" ", "·", " ">> \o chosen_cat

\* data_pdf: for a converted file the PDF of the same stem in the document
\* directory, for a PDF its own path.
SyncDataPdf(f, docs) ==
  IF f.dir = "md"
    THEN IF (Stem(f.name) \o <<".", "pdf">>) \in docs
           THEN <<"./">> \o Stem(f.name) \o <<".", "pdf">> ELSE <<>>
    ELSE IF Ext(f.name) = <<"pdf">> THEN RelOf(f) ELSE <<>>

\* LI_TEMPLATE.format(...): every field goes through html.escape.
SyncLi(f, chosen_cat, docs) ==
  <<WS, Li(html_escape(RelOf(f)), html_escape(SyncDataPdf(f, docs)),
           html_escape(SyncTags(f.name, chosen_cat))), WS>>

\* The names of two categories are taken for the same one.
SameCategory(a, b) == Lower(Strip(a)) = Lower(Strip(b))

\* cat_obj: the offset in categories of the first category of that name, 0 if none.
CatObj(cats, chosen_cat) ==
  LET hits == {i \in 1..Len(cats) : SameCategory(cats[i].name, chosen_cat)}
  IN  IF hits = {} THEN 0 ELSE CHOOSE i \in hits : \A j \in hits : i <= j

\* The categories after delta characters were inserted at insert_pos.
Shifted(cats, insert_pos, delta) ==
  [i \in 1..Len(cats) |->
     IF cats[i].ul_close_index >= insert_pos
       THEN [cats[i] EXCEPT !.ul_close_index = @ + delta, !.ul_open_index = @ + delta,
                            !.section_start = @ + delta]
       ELSE cats[i]]

\* new_section_html around one entry
NewSection(chosen_cat, li_html) ==
  <<WS, Tok("sec"), WS, H2(html_escape(chosen_cat)), WS, Tok("ul"), WS>> \o li_html
    \o <<WS, Tok("eul"), WS, Tok("esec"), WS>>

\* Python s[:pos] + piece + s[pos:]
InsertAt(s, pos, piece) == Slice(s, 0, pos) \o piece \o SliceFrom(s, pos)

\* modified_text after the entry of one file was placed in chosen_cat.
SyncText(buf, cats, chosen_cat, li_html) ==
  LET c == CatObj(cats, chosen_cat)
      lists_close == FirstTok(buf, "end", 0)
  IN  IF c # 0 THEN InsertAt(buf, cats[c].ul_close_index, li_html)
      ELSE IF lists_close >= 0 THEN InsertAt(buf, lists_close, NewSection(chosen_cat, li_html))
      ELSE buf \o NewSection(chosen_cat, li_html)

\* categories after that insertion: shifted for an existing category, left
\* as they are when a new section was created.
SyncCats(cats, chosen_cat, li_html) ==
  LET c == CatObj(cats, chosen_cat)
  IN  IF c # 0 THEN Shifted(cats, cats[c].ul_close_index, Len(li_html)) ELSE cats

\* ------------------------------------------------- reassign: one move
\* The atoms outside the class [A-Za-z0-9_()+\- ] of the type pattern.
NonWord == {"&", "amp;", "·", ".", "./", "md_outputs/"}

RECURSIVE WordPrefix(_)
\* The longest prefix of s made of atoms of the class.
WordPrefix(s) ==
  IF s = <<>> \/ Head(s) \in NonWord THEN <<>> ELSE <<Head(s)>> \o WordPrefix(Tail(s))

\* The new content of the tags block: the part left of the first '·' (or the
\* leading word when there is no '·'), then ' · ' and the new category.
NewTagContent(content, new_cat) ==
  LET dot == Find(content, <<"·">>)
  IN  IF dot >= 0 THEN Strip(Slice(content, 0, dot)) \o <<" ", "·", " ">> \o new_cat
      ELSE IF WordPrefix(content) # <<>> /\ Strip(content) # <<>>
        THEN Strip(WordPrefix(content)) \o <<" ", "·", " ">> \o new_cat
      ELSE new_cat

\* update_tags_in_li: the new content is escaped and put in the tags block.
update_tags_in_li(li, new_cat) == [li EXCEPT !.tags = html_escape(NewTagContent(li.tags, new_cat))]

\* The entries of the files list of a category.
EntriesOf(txt, c) == LiBlocks(Slice(txt, c.ul_open_index, c.ul_close_index))

\* s.replace(piece, '', 1)
RemoveFirst(s, piece) ==
  IF Find(s, piece) < 0 THEN s
  ELSE Slice(s, 0, Find(s, piece)) \o SliceFrom(s, Find(s, piece) + Len(piece))

RECURSIVE DescList(_)
\* sorted(indices, reverse=True)
DescList(S) ==
  IF S = {} THEN <<>>
  ELSE LET m == CHOOSE x \in S : \A y \in S : x >= y
       IN  <<m>> \o DescList(S \ {m})

\* li_blocks[i] does not raise IndexError: Python takes a negative index
\* from the end of the list.
InRange(li_blocks, i) == 0 - Len(li_blocks) <= i /\ i < Len(li_blocks)

\* li_blocks[i]
ListItem(li_blocks, i) == IF i < 0 THEN li_blocks[Len(li_blocks) + i + 1] ELSE li_blocks[i + 1]

RECURSIVE Selected(_, _)
\* selected_li_htmls: the entries at the chosen indices, highest index first;
\* an index that raises IndexError is skipped.
Selected(li_blocks, idxs) ==
  IF idxs = <<>> THEN <<>>
  ELSE (IF InRange(li_blocks, Head(idxs)) THEN <<ListItem(li_blocks, Head(idxs))>> ELSE <<>>)
         \o Selected(li_blocks, Tail(idxs))

RECURSIVE WithoutAll(_, _)
\* ul_content after the first occurrence of each selected entry was removed.
WithoutAll(ul_content, sel) ==
  IF sel = <<>> THEN ul_content
  ELSE WithoutAll(RemoveFirst(ul_content, <<Head(sel)>>), Tail(sel))

RECURSIVE InsertEach(_, _, _, _)
\* The entries, taken from the last to the first of sel, each with its tags
\* updated, each inserted at the same insert_pos.
InsertEach(txt, insert_pos, sel, tgt_cat) ==
  IF sel = <<>> THEN txt
  ELSE InsertEach(InsertAt(txt, insert_pos, <<update_tags_in_li(sel[Len(sel)], tgt_cat)>>),
                  insert_pos, SubSeq(sel, 1, Len(sel) - 1), tgt_cat)

\* The empty section created for a new category.
EmptySection(new_name) ==
  <<WS, Tok("sec"), WS, H2(html_escape(new_name)), WS, Tok("ul"), WS, Tok("eul"), WS,
    Tok("esec"), WS>>

\* The text once the new category, if one is asked for, has been created.
WithTarget(txt, new_name) ==
  IF new_name = <<>> THEN txt ELSE InsertAt(txt, FirstTok(txt, "end", 0), EmptySection(new_name))

\* tgt_idx (0-based): the number chosen, or the first category whose name
\* matches the new name.
TargetIdx(txt, tgt, new_name) ==
  IF new_name = <<>> THEN tgt
  ELSE LET cats == find_categories(WithTarget(txt, new_name))
       IN  CatObj(cats, new_name) - 1

\* The staged text of one move: the entries idxs of category src_idx go to
\* the category tgt, or to the new category new_name.
Moved(txt, src_idx, idxs, tgt, new_name) ==
  LET t1 == WithTarget(txt, new_name)
      cats == find_categories(t1)
      tgt_idx == TargetIdx(txt, tgt, new_name)
      tgt_cat == cats[tgt_idx + 1].name
      src == cats[src_idx + 1]
      ul_content == Slice(t1, src.ul_open_index, src.ul_close_index)
      sel == Selected(LiBlocks(ul_content), DescList(idxs))
      t2 == Slice(t1, 0, src.ul_open_index) \o WithoutAll(ul_content, sel)
              \o SliceFrom(t1, src.ul_close_index)
      insert_pos == find_categories(t2)[tgt_idx + 1].ul_close_index
  IN  InsertEach(t2, insert_pos, sel, tgt_cat)

\* ------------------------------------------------- connect: one file
\* "md_rel in index_text": the path occurs somewhere in the raw text.
TextMentions(txt, rel) ==
  \E i \in 1..Len(txt) : txt[i].k = "li" /\ (Contains(txt[i].path, rel) \/ Contains(txt[i].pdf, rel))

RECURSIVE BaseName(_)
\* Path(val).name
BaseName(val) ==
  IF val # <<>> /\ Head(val) \in {"./", "md_outputs/"} THEN BaseName(Tail(val)) ELSE val

\* val ends in .pdf and has the given stem.
IsPdfOfStem(val, stem) == Ext(BaseName(val)) = <<"pdf">> /\ Stem(BaseName(val)) = stem

\* The first value of a list that is a PDF of the stem, <<>> if none.
FirstPdfOfStem(vals, stem) ==
  LET hit == SelectSeq(vals, LAMBDA v : IsPdfOfStem(v, stem))
  IN  IF hit = <<>> THEN <<>> ELSE hit[1]

\* pdf_rel: the PDF of the same stem in the document directory; else the
\* first data-path, else the first data-pdf, of the catalog that names a PDF
\* of that stem; <<>> if there is none.
PdfRel(stem, docs, txt) ==
  LET lis == LiBlocks(txt)
      by_path == FirstPdfOfStem([i \in 1..Len(lis) |-> lis[i].path], stem)
      by_pdf == FirstPdfOfStem([i \in 1..Len(lis) |-> lis[i].pdf], stem)
  IN  IF (stem \o <<".", "pdf">>) \in docs THEN <<"./">> \o stem \o <<".", "pdf">>
      ELSE IF by_path # <<>> THEN by_path
      ELSE by_pdf

\* li_contains_pdf
li_contains_pdf(li, pdf_rel) == li.pdf = pdf_rel \/ li.path = pdf_rel

\* The offset in cats (from 1) of the first category whose span of the
\* searched text holds an entry for the PDF, 0 if none.
FoundCat(searched, cats, pdf_rel) ==
  LET hits == {i \in 1..Len(cats) :
                 \E n \in 1..Len(EntriesOf(searched, cats[i])) :
                   li_contains_pdf(EntriesOf(searched, cats[i])[n], pdf_rel)}
  IN  IF hits = {} THEN 0 ELSE CHOOSE i \in hits : \A j \in hits : i <= j

\* The entry for the PDF in that category.
FoundLi(searched, c, pdf_rel) ==
  LET hit == SelectSeq(EntriesOf(searched, c), LAMBDA li : li_contains_pdf(li, pdf_rel))
  IN  hit[1]

\* ' '.join(tags.strip().split())
extract_tags(li) == Collapse(Strip(li.tags))

\* The tags of the new entry: those of the PDF entry; the script falls back
\* to the category name, connect_impl does not.
ConnectTags(c, li, cat) ==
  IF extract_tags(li) # <<>> THEN extract_tags(li)
  ELSE IF c = "connect" THEN cat.name ELSE <<>>

\* build_li(...)
ConnectLi(md_rel, pdf_rel, tags) ==
  <<WS, Li(html_escape(md_rel), html_escape(pdf_rel), html_escape(tags)), WS>>

\* The text in which the entry of the PDF is looked for: the script searches
\* the text as read, connect_impl the working buffer.
Searched(c, read, buf) == IF c = "connect" THEN read ELSE buf

\* The category (offset from 1) that gets an entry for the Markdown file, 0
\* when the file is skipped.
ConnectTarget(c, name, docs, read, buf, cats) ==
  LET md_rel == RelMd(name)
      pdf_rel == PdfRel(Stem(name), docs, read)
      found == IF pdf_rel = <<>> THEN 0 ELSE FoundCat(Searched(c, read, buf), cats, pdf_rel)
  IN  IF StartsWith(name, <<"~$">>) \/ StartsWith(name, <<".">>) THEN 0
      ELSE IF TextMentions(read, md_rel) THEN 0
      ELSE IF found = 0 THEN 0
      ELSE IF TextMentions(Slice(buf, cats[found].ul_open_index, cats[found].ul_close_index), md_rel)
        THEN 0
      ELSE found

\* The new entry for the Markdown file, to go into category found.
ConnectEntry(c, name, docs, read, buf, cats, found) ==
  LET pdf_rel == PdfRel(Stem(name), docs, read)
  IN  ConnectLi(RelMd(name), pdf_rel,
                ConnectTags(c, FoundLi(Searched(c, read, buf), cats[found], pdf_rel), cats[found]))

\* The categories after an insertion of connect: both commands shift the
\* offsets of every category whose </ul> is at or after the insertion.
ConnectShifted(cats, insert_pos, delta) == Shifted(cats, insert_pos, delta)

\* md_files: the sorted .md files of md_outputs.
MdFiles(mds) == SelectSeq(SortedNames(mds), LAMBDA n : Ext(n) = <<"md">>)

\* ------------------------------------------------- delete-orphans
\* orphans: the paths of the state block that are no data-path of the catalog.
Orphans(content) ==
  content[FirstTok(content, "state", 0) + 1].files \ DataPaths(content)

\* updated: every occurrence of the old state block is replaced by the block
\* without the orphans (str.replace).
WithoutOrphans(content) ==
  LET old == content[FirstTok(content, "state", 0) + 1]
      new == [old EXCEPT !.files = old.files \ Orphans(content)]
  IN  [i \in 1..Len(content) |-> IF content[i] = old THEN new ELSE content[i]]

\* ------------------------------------------------------------------ state
VARIABLES
  exists,      \* the catalog file exists
  index,       \* the text of the catalog file on disk
  backups,     \* the backup files next to the catalog: [kind, ts, content]
  docFiles,    \* the names of the user's files in the document directory
  mdFiles,     \* the names of the files in md_outputs
  clock,       \* the wall clock, in seconds
  runs,        \* the number of commands started so far
  pc,          \* the position of the running command ("idle": none)
  cmd,         \* the running (or last) command
  dry_run,     \* its --dry-run switch
  yes_to_all,  \* its --yes-to-all switch
  rc,          \* the exit status of the last command that ended
  prev,        \* the command that ran before the current one: [cmd, yes, rc]
  orig,        \* the catalog text read when the command started
  text,        \* the working buffer (new_text / modified_text / text)
  edits,       \* merge, remove: the edits still to apply
  bak,         \* the backup made by the running command, <<>> before
  categories,  \* sync, connect, reassign: the parsed categories
  cat_names,   \* sync: the category names offered to the user
  todo,        \* sync, connect: the files still to handle
  inserted,    \* sync, connect: the data-paths inserted by this command
  out,         \* what the running command has reported so far
  stack,       \* the scripts running in this process, the outermost first
  patterns,    \* remove: the --pattern arguments of the last remove
  ran          \* auto: the steps of the workflow started so far

vars ==
  <<exists, index, backups, docFiles, mdFiles, clock, runs, pc, cmd, dry_run,
    yes_to_all, rc, prev, orig, text, edits, bak, categories, cat_names, todo, inserted,
    out, stack, patterns, ran>>

disk == <<exists, index, backups>>
files == <<docFiles, mdFiles, stack, patterns, ran>>
locals == <<orig, text, edits, bak, categories, cat_names, todo, inserted, out>>
walk == <<categories, cat_names, todo, inserted>>

\* A command starts: a fresh process, with the switches it was given.
Begin(c, dry, yes) ==
  /\ pc = "idle"
  /\ runs < MaxRuns
  /\ runs' = runs + 1
  /\ cmd' = c
  /\ dry_run' = dry
  /\ yes_to_all' = yes
  /\ prev' = [cmd |-> cmd, yes |-> yes_to_all, rc |-> rc]
  /\ bak' = <<>>

\* The process ends with exit status code.
Exit(code) ==
  /\ pc' = "idle"
  /\ rc' = code

\* A fresh process that stops before it has read the catalog.
NothingRead ==
  /\ orig' = <<>>
  /\ text' = <<>>
  /\ edits' = <<>>
  /\ categories' = <<>>
  /\ cat_names' = <<>>
  /\ todo' = <<>>
  /\ inserted' = <<>>

\* ------------------------------------------------------------------ commit
\* The name of a backup file: <index name>.bak.<timestamp>, or
\* <index name>.bak.delete.<timestamp> for delete-orphans.
BackupKind(c) == IF c = "delete_orphans" THEN "bak.delete" ELSE "bak"

\* shutil.copy2(index_path, bak): a backup of the same name is overwritten.
CopyTo(bs, kind, ts, content) ==
  {b \in bs : ~(b.kind = kind /\ b.ts = ts)} \cup {[kind |-> kind, ts |-> ts, content |-> content]}

\* Where a command goes once its backup is made: sync makes the backup first
\* and edits afterwards, the others write at once.
AfterBackup(c) == IF c = "sync" THEN "sync_loop" ELSE "write"

\* A commit that writes without a backup.
AfterPlanNoBackup(c, dry) == IF dry THEN "idle" ELSE "write"

\* A commit that ignores the dry-run switch.
AfterPlanNoDry(c, dry) == "backup"

\* Where merge, remove and connect go once their edits are planned and
\* applied: a dry run ends there, a real run goes on to the backup.
AfterPlan(c, dry) == IF dry THEN "idle" ELSE "backup"

\* bak = ...; shutil.copy2(index_path, bak)
Backup ==
  /\ pc = "backup"
  /\ bak' = <<BackupKind(cmd), clock>>
  /\ backups' = CopyTo(backups, BackupKind(cmd), clock, index)
  /\ pc' = AfterBackup(cmd)
  /\ UNCHANGED <<exists, index, files, clock, runs, cmd, dry_run, yes_to_all, prev, rc,
                 orig, text, edits, walk, out>>

\* shutil.copy2 raises: the exception ends the process.
BackupFails ==
  /\ pc = "backup"
  /\ Exit(1)
  /\ UNCHANGED <<disk, files, clock, runs, cmd, dry_run, yes_to_all, prev, locals>>

\* index_path.write_text(...), first half: open(mode='w') truncates the file.
WriteOpen ==
  /\ pc = "write"
  /\ index' = <<>>
  /\ exists' = TRUE
  /\ pc' = "writing"
  /\ UNCHANGED <<backups, files, clock, runs, cmd, dry_run, yes_to_all, prev, rc, locals>>

\* index_path.write_text(...), second half: the buffer is written.
WriteData ==
  /\ pc = "writing"
  /\ index' = text
  /\ Exit(0)
  /\ UNCHANGED <<exists, backups, files, clock, runs, cmd, dry_run, yes_to_all, prev, locals>>

\* What a failed write may leave of the buffer: nothing, or all but its end.
PartialLengths(buf) == {0, Max(Len(buf) - 1, 0)}

\* The write raises (disk full, I/O error) after n tokens.
WriteFails ==
  /\ pc = "writing"
  /\ \E n \in PartialLengths(text) : index' = Slice(text, 0, n)
  /\ Exit(1)
  /\ UNCHANGED <<exists, backups, files, clock, runs, cmd, dry_run, yes_to_all, prev, locals>>

\* A second passes between two commands.
Tick ==
  /\ pc = "idle"
  /\ clock < MaxClock
  /\ clock' = clock + 1
  /\ UNCHANGED <<disk, files, runs, pc, cmd, dry_run, yes_to_all, prev, rc, locals>>

\* ------------------------------------------------------------------ merge
\* main() of the merge script and merge_impl, up to the apply loop.
MergeStart ==
  \E dry \in BOOLEAN :
    /\ Begin("merge", dry, FALSE)
    /\ out' = <<>>
    /\ IF ~exists
         THEN NothingRead /\ Exit(1)
         ELSE /\ orig' = index
              /\ text' = index
              /\ edits' = MergePlan(index)
              /\ UNCHANGED walk
              /\ IF DupKeys(extract_sections(index)) = <<>>
                   THEN Exit(0)
                   ELSE pc' = "apply" /\ UNCHANGED rc
    /\ UNCHANGED <<disk, files, clock>>

\* The next edit is skipped with a warning: merge finds its recorded text
\* neither at the recorded span nor anywhere else; remove never looks.
Skips(c, buf, e) ==
  c = "merge" /\ Slice(buf, e.start, e.end) # e.old /\ Find(buf, e.old) < 0

\* The buffer after the next edit of the running command.
ApplyNext(c, buf, e) == IF c = "merge" THEN ApplyEdit(buf, e) ELSE CutEdit(buf, e)

\* One iteration of the apply loop of merge or remove; after the last one,
\* a dry run ends and a real run goes on to the backup.
ApplyStep ==
  /\ pc = "apply"
  /\ edits # <<>>
  /\ text' = ApplyNext(cmd, text, Head(edits))
  /\ out' = IF Skips(cmd, text, Head(edits)) THEN Append(out, "skipped") ELSE out
  /\ edits' = Tail(edits)
  /\ IF Tail(edits) # <<>> THEN UNCHANGED <<pc, rc>>
     ELSE IF AfterPlan(cmd, dry_run) = "idle" THEN Exit(0)
     ELSE pc' = AfterPlan(cmd, dry_run) /\ UNCHANGED rc
  /\ UNCHANGED <<disk, files, clock, runs, cmd, dry_run, yes_to_all, prev, orig, bak, walk>>

\* ------------------------------------------------------------------ remove
Patterns == {<<"q">>, <<"z">>}

\* main() of the remove script, up to the apply loop.
RemoveStart ==
  \E dry \in BOOLEAN, pats \in (SUBSET Patterns) \ {{}} :
    /\ Begin("remove", dry, FALSE)
    /\ out' = <<>>
    /\ patterns' = pats
    /\ IF ~exists
         THEN NothingRead /\ Exit(1)
         ELSE /\ orig' = index
              /\ text' = index
              /\ edits' = RemovePlan(index, pats)
              /\ UNCHANGED walk
              /\ IF RemovePlan(index, pats) = <<>> \/ AfterPlan("remove", dry) = "idle"
                   THEN Exit(0)
                   ELSE pc' = "apply" /\ UNCHANGED rc
    /\ UNCHANGED <<disk, docFiles, mdFiles, stack, ran, clock>>

\* ------------------------------------------------------------ catalogs
\* File names and data-paths of the model.
FileA == <<"q", ".", "pdf">>
FileB == <<"z", ".", "txt">>
RelDoc(name) == <<"./">> \o name

LiA == Li(RelDoc(FileA), RelDoc(FileA), <<"PDF", " ", "·", " ", "Guides">>)
LiB == Li(RelDoc(FileB), <<>>, <<"TXT", " ", "·", " ", "Guides">>)

\* A category section; one without files list when ul is FALSE.
Section(name, lis, ul) ==
  <<Tok("sec"), H2(name)>> \o (IF ul THEN <<Tok("ul")>> \o lis \o <<Tok("eul")>> ELSE <<>>)
    \o <<Tok("esec"), WS>>

\* The sections the catalogs of the merge model are built from.
MergeSections ==
  {Section(<<"Guides">>, lis, TRUE) : lis \in {<<>>, <<LiA>>, <<LiB>>, <<LiA, LiB>>}}
    \cup {Section(<<" ", "guides">>, lis, TRUE) : lis \in {<<LiA>>, <<LiB>>, <<LiB, LiA>>}}
    \cup {Section(<<"Guides">>, <<>>, FALSE), Section(<<"Docs">>, <<LiA>>, TRUE)}

\* A catalog: a head, some sections, the end of the lists area.
Catalog(secs) == <<Tok("txt")>> \o Concat(secs) \o <<Tok("end")>>

SeqsUpTo(S, n) == UNION {[1..k -> S] : k \in 0..n}

MergeCatalogs == {Catalog(secs) : secs \in SeqsUpTo(MergeSections, MaxSections)}

InitCommon ==
  /\ backups = {}
  /\ clock = 1
  /\ runs = 0
  /\ pc = "idle"
  /\ cmd = "none"
  /\ dry_run = FALSE
  /\ yes_to_all = FALSE
  /\ rc = 0
  /\ prev = [cmd |-> "none", yes |-> FALSE, rc |-> 0]
  /\ stack = <<>>
  /\ patterns = {}
  /\ ran = <<>>
  /\ orig = <<>>
  /\ text = <<>>
  /\ edits = <<>>
  /\ bak = <<>>
  /\ categories = <<>>
  /\ cat_names = <<>>
  /\ todo = <<>>
  /\ inserted = <<>>
  /\ out = <<>>

InitMerge == InitCommon /\ exists = TRUE /\ index \in MergeCatalogs /\ docFiles = {} /\ mdFiles = {}

NextMerge == MergeStart \/ ApplyStep \/ Backup \/ BackupFails \/ WriteOpen \/ WriteData \/ WriteFails

SpecMerge == InitMerge /\ [][NextMerge]_vars


\* ------------------------------------------------------------------ sync
\* main() of the sync script up to the backup: read, parse, scan.
SyncStart ==
  \E yes \in BOOLEAN :
    /\ Begin("sync", FALSE, yes)
    /\ out' = <<>>
    /\ IF ~exists
         THEN NothingRead /\ Exit(1)
         ELSE /\ orig' = index
              /\ text' = index
              /\ edits' = <<>>
              /\ categories' = find_categories(index)
              /\ cat_names' = [i \in 1..Len(find_categories(index)) |-> find_categories(index)[i].name]
              /\ todo' = Unreferenced(docFiles, mdFiles, backups, index)
              /\ inserted' = <<>>
              /\ IF Unreferenced(docFiles, mdFiles, backups, index) = <<>>
                   THEN Exit(0)
                   ELSE pc' = "backup" /\ UNCHANGED rc
    /\ UNCHANGED <<disk, files, clock>>

\* Where sync goes after its last insertion: with --yes-to-all it writes,
\* otherwise it asks.
AfterLoop(yes) == IF yes THEN "write" ELSE "confirm"

\* One iteration of the loop over the unreferenced files.
SyncInsert ==
  /\ pc = "sync_loop"
  /\ todo # <<>>
  /\ \E ch \in SyncChoices(cat_names, Suggested(Head(todo).name, cat_names), yes_to_all) :
       LET li_html == SyncLi(Head(todo), ch.cat, docFiles)
       IN  /\ text' = SyncText(text, categories, ch.cat, li_html)
           /\ categories' = SyncCats(categories, ch.cat, li_html)
           /\ cat_names' = IF ch.append THEN Append(cat_names, ch.cat) ELSE cat_names
           /\ inserted' = Append(inserted, RelOf(Head(todo)))
  /\ todo' = Tail(todo)
  /\ pc' = IF Tail(todo) = <<>> THEN AfterLoop(yes_to_all) ELSE pc
  /\ UNCHANGED <<disk, files, clock, runs, cmd, dry_run, yes_to_all, prev, rc, orig, edits, bak,
                 out>>

\* Where a command goes when the user answers 'y': sync has its backup
\* already, reassign makes it now.
AfterYes(c) == IF c = "sync" THEN "write" ELSE "backup"

\* "Write changes? [y/N]": y
ConfirmYes ==
  /\ pc = "confirm"
  /\ pc' = AfterYes(cmd)
  /\ UNCHANGED <<disk, files, clock, runs, cmd, dry_run, yes_to_all, prev, rc, locals>>

\* "Write changes? [y/N]": anything else
ConfirmNo ==
  /\ pc = "confirm"
  /\ Exit(0)
  /\ UNCHANGED <<disk, files, clock, runs, cmd, dry_run, yes_to_all, prev, locals>>

\* ------------------------------------------------------------ list-unreferenced
\* list-unreferenced: the unreferenced files are printed, nothing is written.
ListUnreferenced ==
  /\ Begin("list", FALSE, FALSE)
  /\ IF ~exists
       THEN NothingRead /\ out' = <<>> /\ Exit(1)
       ELSE /\ orig' = index
            /\ text' = index
            /\ edits' = <<>>
            /\ UNCHANGED walk
            /\ out' = [i \in 1..Len(list_unreferenced_impl(docFiles, mdFiles, backups, index)) |->
                         RelOf(list_unreferenced_impl(docFiles, mdFiles, backups, index)[i])]
            /\ Exit(0)
  /\ UNCHANGED <<disk, files, clock>>

\* File names of the model.
FileAmp == <<"q", "&", "z", ".", "txt">>
FileDot == <<".", "DS_Store">>
FileTmp == <<"~$", "q", ".", "docx">>
FileMd == <<"q", ".", "md">>

DocUniverse == {FileA, FileB, FileAmp, FileDot, FileTmp}
MdUniverse == {FileMd}

\* The catalogs of the sync model: one or two well-formed categories, a
\* category without files list followed by one with, or none.
SyncCatalogs ==
  {Catalog(<<Section(<<"Guides">>, <<LiA>>, TRUE)>>),
   Catalog(<<Section(<<"Docs">>, <<>>, TRUE), Section(<<"Guides">>, <<>>, TRUE)>>),
   Catalog(<<Section(<<"Docs">>, <<>>, FALSE), Section(<<"Guides">>, <<>>, TRUE)>>),
   Catalog(<<>>)}

InitSync ==
  /\ InitCommon
  /\ exists = TRUE
  /\ index \in SyncCatalogs
  /\ docFiles \in {d \in SUBSET DocUniverse : Cardinality(d) <= MaxFiles}
  /\ mdFiles \in SUBSET MdUniverse

NextSync ==
  \/ SyncStart \/ SyncInsert \/ ConfirmYes \/ ConfirmNo
  \/ ListUnreferenced
  \/ Backup \/ BackupFails \/ WriteOpen \/ WriteData \/ WriteFails

SpecSync == InitSync /\ [][NextSync]_vars

\* ------------------------------------------------------------------ reassign
\* main() of the reassign script up to the first prompt.
ReassignStart ==
  /\ Begin("reassign", FALSE, FALSE)
  /\ out' = <<>>
  /\ IF ~exists
       THEN NothingRead /\ Exit(1)
       ELSE /\ orig' = index
            /\ text' = index
            /\ edits' = <<>>
            /\ categories' = find_categories(index)
            /\ UNCHANGED <<cat_names, todo, inserted>>
            /\ IF find_categories(index) = <<>>
                 THEN Exit(1)
                 ELSE pc' = "reassign" /\ UNCHANGED rc
  /\ UNCHANGED <<disk, files, clock>>

\* The user enters 'q' at the category prompt.
ReassignQuit ==
  /\ pc = "reassign"
  /\ Exit(0)
  /\ UNCHANGED <<disk, files, clock, runs, cmd, dry_run, yes_to_all, prev, locals>>

\* The user picks a source category with entries, a selection (the entry
\* numbers typed, less one: 0 gives -1, a number past the last entry an index
\* out of range) and a target: an existing category or a new name.  The move
\* is staged in the buffer, every index out of range is reported, and the
\* save prompt comes next.  edits keeps the request.
ReassignMove ==
  /\ pc = "reassign"
  /\ \E src_idx \in 0..(Len(categories) - 1) :
       /\ EntriesOf(text, categories[src_idx + 1]) # <<>>
       /\ \E idxs \in (SUBSET ((0 - 1)..Len(EntriesOf(text, categories[src_idx + 1])))) \ {{}},
             tgt \in 0..(Len(categories) - 1),
             new_name \in NewNames \cup {<<>>} :
            /\ new_name # <<>> => (tgt = 0 /\ FirstTok(text, "end", 0) >= 0)
            /\ src_idx < Len(find_categories(WithTarget(text, new_name)))
            /\ text' = Moved(text, src_idx, idxs, tgt, new_name)
            /\ categories' = find_categories(Moved(text, src_idx, idxs, tgt, new_name))
            /\ edits' = <<[typ |-> "move", src |-> src_idx, idxs |-> idxs, tgt |-> tgt,
                           new_name |-> new_name]>>
            /\ out' = out \o [n \in 1..Cardinality({i \in idxs :
                                      ~InRange(EntriesOf(text, categories[src_idx + 1]), i)}) |->
                                "out of range"]
  /\ pc' = "confirm"
  /\ UNCHANGED <<disk, files, clock, runs, cmd, dry_run, yes_to_all, rc, prev, orig, bak,
                 cat_names, todo, inserted>>

\* ------------------------------------------------------------------ connect
\* main() of the connect script (c = "connect") and connect_impl behind the
\* manager (c = "connect_impl"), up to the loop over the Markdown files.
ConnectStart ==
  \E c \in {"connect", "connect_impl"}, dry \in BOOLEAN :
    /\ Begin(c, dry, FALSE)
    /\ out' = <<>>
    /\ IF ~exists
         THEN NothingRead /\ Exit(1)
         ELSE /\ orig' = index
              /\ text' = index
              /\ edits' = <<>>
              /\ categories' = find_categories(index)
              /\ cat_names' = <<>>
              /\ inserted' = <<>>
              /\ todo' = IF find_categories(index) = <<>> THEN <<>> ELSE MdFiles(mdFiles)
              /\ IF find_categories(index) = <<>> THEN Exit(1)
                 ELSE IF MdFiles(mdFiles) = <<>> THEN Exit(0)
                 ELSE pc' = "connect_loop" /\ UNCHANGED rc
    /\ UNCHANGED <<disk, files, clock>>

\* One iteration of the loop over the Markdown files; after the last one the
\* command ends when nothing is planned or the run is dry, else it commits.
ConnectStep ==
  /\ pc = "connect_loop"
  /\ todo # <<>>
  /\ LET name == Head(todo)
         found == ConnectTarget(cmd, name, docFiles, orig, text, categories)
         new_li == ConnectEntry(cmd, name, docFiles, orig, text, categories, found)
         planned == IF found = 0 THEN inserted ELSE Append(inserted, RelMd(name))
     IN  /\ IF found = 0
              THEN UNCHANGED <<text, categories>>
              ELSE /\ text' = InsertAt(text, categories[found].ul_close_index, new_li)
                   /\ categories' = ConnectShifted(categories, categories[found].ul_close_index, Len(new_li))
         /\ inserted' = planned
         /\ IF Tail(todo) # <<>> THEN UNCHANGED <<pc, rc>>
            ELSE IF planned = <<>> THEN Exit(0)
            ELSE IF AfterPlan(cmd, dry_run) = "idle" THEN Exit(0)
            ELSE pc' = AfterPlan(cmd, dry_run) /\ UNCHANGED rc
  /\ todo' = Tail(todo)
  /\ UNCHANGED <<disk, files, clock, runs, cmd, dry_run, yes_to_all, prev, orig, edits, bak,
                 cat_names, out>>

\* ------------------------------------------------------------------ delete-orphans
\* main() and delete_orphans(): without state block the command returns 1, a
\* state block that is not JSON makes json.loads raise; without orphans
\* nothing is written.
DeleteOrphans ==
  /\ Begin("delete_orphans", FALSE, FALSE)
  /\ out' = <<>>
  /\ IF ~exists
       THEN NothingRead /\ Exit(1)
       ELSE /\ orig' = index
            /\ edits' = <<>>
            /\ UNCHANGED walk
            /\ IF FirstTok(index, "state", 0) < 0
                 THEN text' = index /\ Exit(1)
               ELSE IF ~index[FirstTok(index, "state", 0) + 1].valid
                 THEN text' = index /\ Exit(1)
               ELSE IF Orphans(index) = {}
                 THEN text' = index /\ Exit(0)
               ELSE text' = WithoutOrphans(index) /\ pc' = "backup" /\ UNCHANGED rc
  /\ UNCHANGED <<disk, files, clock>>

\* The catalogs of the remove model: one category whose list holds up to
\* MaxEntries pieces, each an entry or white space; an entry may occur twice.
RemoveCatalogs ==
  {Catalog(<<Section(<<"Guides">>, lis, TRUE)>>) : lis \in SeqsUpTo({LiA, LiB, WS}, MaxEntries)}

InitRemove == InitCommon /\ exists = TRUE /\ index \in RemoveCatalogs /\ docFiles = {} /\ mdFiles = {}

NextRemove == RemoveStart \/ ApplyStep \/ Backup \/ BackupFails \/ WriteOpen \/ WriteData \/ WriteFails

SpecRemove == InitRemove /\ [][NextRemove]_vars

\* ------------------------------------------------------------ all commands
\* The catalogs of the full model: a well-formed catalog with a state block,
\* one with a duplicate category and a repeated entry, one without category.
LiMd == Li(RelMd(FileMd), RelDoc(FileA), <<"MD", " ", "·", " ", "Guides">>)

FullCatalogs ==
  {Catalog(<<Section(<<"Guides">>, <<LiA>>, TRUE), Section(<<"Docs">>, <<LiB>>, TRUE)>>)
     \o <<State({RelDoc(FileA), RelDoc(FileAmp)}, TRUE)>>,
   Catalog(<<Section(<<"Guides">>, <<LiB, WS, LiB>>, TRUE), Section(<<"guides">>, <<LiA>>, TRUE)>>),
   Catalog(<<>>) \o <<State({}, FALSE)>>}

Init ==
  /\ InitCommon
  /\ \/ exists = TRUE /\ index \in FullCatalogs
     \/ exists = FALSE /\ index = <<>>
  /\ docFiles = {FileA, FileB}
  /\ mdFiles = {FileMd}

Next ==
  \/ MergeStart \/ RemoveStart \/ ApplyStep
  \/ SyncStart \/ SyncInsert
  \/ ConnectStart \/ ConnectStep
  \/ ReassignStart \/ ReassignQuit \/ ReassignMove
  \/ ConfirmYes \/ ConfirmNo
  \/ DeleteOrphans
  \/ Backup \/ BackupFails \/ WriteOpen \/ WriteData \/ WriteFails
  \/ Tick

Spec == Init /\ [][Next]_vars

\* ------------------------------------------------------------ claims: merge
\* The data-paths of a list of entries, in order.
PathsOf(lis) == [i \in 1..Len(lis) |-> lis[i].path]

NoRepeat(s) == \A i, j \in 1..Len(s) : i # j => s[i] # s[j]

\* The merge command has computed its merged text from a catalog with
\* duplicate categories.
MergeApplied ==
  /\ cmd = "merge"
  /\ pc \in {"idle", "backup", "write", "writing"}
  /\ DupKeys(extract_sections(orig)) # <<>>

\* C1: after merge, every normalized name carried by two or more sections is
\* carried by exactly one section, whose entries are the union of the
\* entries of the group, no data-path occurring twice.
C1_MergeUnion ==
  MergeApplied =>
    LET before == extract_sections(orig)
        after == extract_sections(text)
    IN  \A n \in 1..Len(DupKeys(before)) :
          LET key == DupKeys(before)[n]
              group == GroupOf(before, key)
              left == GroupOf(after, key)
          IN  /\ Len(left) = 1
              /\ NoRepeat(PathsOf(left[1].li_list))
              /\ Range(PathsOf(left[1].li_list)) = Range(PathsOf(AllLis(group)))

\* ------------------------------------------------------------ claims: sync
\* A command has just committed: it made its backup and wrote its buffer.
Committed == pc = "idle" /\ rc = 0 /\ bak # <<>> /\ index = text

\* No two entries of a text share a data-path.
UniquePaths(txt) == NoRepeat(SelectSeq(PathsOf(LiBlocks(txt)), LAMBDA q : q # <<>>))

\* No two sections of a text share a normalized name.
UniqueNames(txt) ==
  NoRepeat([i \in 1..Len(extract_sections(txt)) |-> normalize_name(extract_sections(txt)[i].title)])

\* C2: from a catalog without duplicate data-paths, no committed catalog has
\* two entries with the same data-path.
C2_UniqueDataPath == Committed => UniquePaths(index)

\* C3: a committed sync of a catalog whose sections have distinct normalized
\* names leaves no two sections with the same normalized name.
C3_UniqueSectionNames ==
  (Committed /\ cmd = "sync" /\ UniqueNames(orig)) => UniqueNames(index)

\* The running command is a sync --yes-to-all that directly follows a sync
\* --yes-to-all which ended normally.
SecondSync ==
  /\ cmd = "sync" /\ yes_to_all
  /\ prev.cmd = "sync" /\ prev.yes /\ prev.rc = 0

\* C4: the second of two sync --yes-to-all runs in a row finds no
\* unreferenced file, inserts nothing and does not write the catalog.
C4_SyncIdempotent ==
  SecondSync => pc = "idle" /\ todo = <<>> /\ inserted = <<>> /\ index = orig

\* A leading-dot file, a temporary editor artifact, a backup of the catalog.
IsBackupFile(name) == StartsWith(name, IndexName \o <<".", "bak", ".">>)
Hidden(name) == StartsWith(name, <<".">>) \/ StartsWith(name, <<"~$">>) \/ IsBackupFile(name)

\* C5: the scan of sync never yields a hidden file, a temporary artifact or
\* a backup of the catalog, and sync inserts no entry for one.
C5_ScanSkipsHidden ==
  cmd = "sync" => \A i \in 1..Len(todo) : ~Hidden(todo[i].name)

\* ------------------------------------------------------------ claims: edits
\* The text of a catalog outside its entries.
NonEntries(txt) == SelectSeq(txt, LAMBDA t : t.k # "li")

RECURSIVE IsSubsequence(_, _)
\* Every token of a occurs in b, in the same order.
IsSubsequence(a, b) ==
  IF a = <<>> THEN TRUE
  ELSE IF b = <<>> THEN FALSE
  ELSE IF Head(a) = Head(b) THEN IsSubsequence(Tail(a), Tail(b))
  ELSE IsSubsequence(a, Tail(b))

RECURSIVE Rebuild(_, _, _)
\* The text from offset i on, as the plan describes it without reference to
\* the order of application: a replaced span gives its replacement, a removed
\* span nothing, every other token itself.
Rebuild(txt, plan, i) ==
  IF i >= Len(txt) THEN <<>>
  ELSE LET at == {n \in 1..Len(plan) : plan[n].start = i}
       IN  IF at # {}
             THEN LET e == plan[CHOOSE n \in at : TRUE]
                  IN  e.new \o Rebuild(txt, plan, e.end)
             ELSE <<txt[i + 1]>> \o Rebuild(txt, plan, i + 1)

\* merge or remove has applied all its edits.
EditsApplied == cmd \in {"merge", "remove"} /\ pc \in {"backup", "write", "writing"}

\* C6: what lies outside the edited sections and the removed entries is in
\* the edited catalog, unchanged and in the same order: remove leaves the
\* text outside the entries as it was, merge changes the spans of its plan
\* only, sync only adds.
C6_FrameUnchanged ==
  /\ (EditsApplied /\ cmd = "remove") => NonEntries(text) = NonEntries(orig)
  /\ (EditsApplied /\ cmd = "merge") => text = Rebuild(orig, MergePlan(orig), 0)
  /\ (cmd = "sync" /\ pc # "idle") => IsSubsequence(orig, text)

\* The edits still to apply are in descending order of start offset.
Descending(es) == \A i, j \in 1..Len(es) : i < j => es[i].start >= es[j].start

\* C10: merge and remove apply their edits in descending order of start
\* offset, and the buffer holds at the span of each edit, when it is
\* applied, the text recorded for it.
C10_SpansValid ==
  (pc = "apply" /\ edits # <<>>) =>
    /\ Descending(edits)
    /\ Slice(text, Head(edits).start, Head(edits).end) = Head(edits).old

\* ------------------------------------------------------------ claims: commit
\* The backup made by the running command: it is on disk and holds the
\* catalog as the command read it.
BackupMade ==
  /\ bak # <<>>
  /\ \E b \in backups : b.kind = bak[1] /\ b.ts = bak[2] /\ b.content = orig

\* C7: in every writing command the catalog file is opened for writing, and
\* its content changed, only when the command has made its timestamped backup
\* of the existing catalog before; after a failed backup nothing is written.
C7_WriteAfterBackup ==
  [][(index' # index \/ pc' = "writing") => BackupMade]_vars

\* C7 witness: a command has written an edited catalog and its backup holds
\* the catalog it read.
C7_Written ==
  /\ pc = "idle" /\ rc = 0 /\ runs > 0
  /\ index = text /\ index # orig
  /\ BackupMade

\* C8: whenever a command has stopped, the catalog on disk is the catalog the
\* command read or the fully edited buffer.
C8_CatalogIntact ==
  (pc = "idle" /\ runs > 0) => (index = orig \/ index = text)

\* A step that ends a command.
Ends == pc' = "idle" /\ (pc # "idle" \/ runs' # runs)

DryRunStatus ==
  IF ~exists THEN 1
  ELSE IF cmd' \in {"connect", "connect_impl"} /\ find_categories(index) = <<>> THEN 1
  ELSE 0

Block(sec) == Slice(sec, 0, Len(sec) - 1)

SecG == Section(<<"Guides">>, <<LiA>>, TRUE)
SecD == Section(<<"Docs">>, <<LiB>>, TRUE)
SecN == Section(<<"New">>, <<>>, TRUE)

ApplyTexts == {Catalog(<<SecD, SecG>>), Catalog(<<SecD, SecG, SecD>>)}

PlanEdits(txt) ==
  {[typ |-> t, start |-> st, end |-> st + Len(old), old |-> old, new |-> new] :
     t \in {"replace", "remove"}, st \in {1, 2, Len(txt)},
     old \in {Block(SecD), Block(SecG), Block(SecN)}, new \in {Block(SecN)}}

Plans(txt) == SeqsUpTo(PlanEdits(txt), MaxPlan) \ {<<>>}

InitApply ==
  /\ InitCommon
  /\ exists = TRUE
  /\ docFiles = {} /\ mdFiles = {}
  /\ index \in ApplyTexts

\* merge_sections entered with a plan of its own making or any other.
PlanStart ==
  \E dry \in BOOLEAN :
    /\ Begin("merge", dry, FALSE)
    /\ out' = <<>>
    /\ orig' = index
    /\ text' = index
    /\ edits' \in Plans(index)
    /\ pc' = "apply"
    /\ UNCHANGED <<disk, files, clock, rc, walk>>

NextApply ==
  PlanStart \/ ApplyStep \/ Backup \/ BackupFails \/ WriteOpen \/ WriteData \/ WriteFails

SpecApply == InitApply /\ [][NextApply]_vars

\* ------------------------------------------------------------ claims: apply loop
\* The recorded text of edit e is at its recorded span.
AtSpan(buf, e) == Slice(buf, e.start, e.end) = e.old

\* buf with the text at [pos, pos + Len(e.old)) replaced or removed.
Spliced(buf, e, pos) ==
  Slice(buf, 0, pos) \o (IF e.typ = "replace" THEN e.new ELSE <<>>)
    \o SliceFrom(buf, pos + Len(e.old))

\* C11: a merge edit whose recorded text is not at its recorded offset is
\* applied at the first occurrence of that text in the buffer; when the text
\* is nowhere, the buffer stays as it is, the edit is reported, and the loop
\* goes on with the remaining edits.
C11_FallbackSearch ==
  [][(pc = "apply" /\ cmd = "merge") =>
       LET e == Head(edits)
       IN  /\ edits' = Tail(edits)
           /\ AtSpan(text, e) => (text' = Spliced(text, e, e.start) /\ out' = out)
           /\ (~AtSpan(text, e) /\ Find(text, e.old) >= 0) =>
                (text' = Spliced(text, e, Find(text, e.old)) /\ out' = out)
           /\ (~AtSpan(text, e) /\ Find(text, e.old) < 0) =>
                /\ text' = text
                /\ out' = Append(out, "skipped")
                /\ Tail(edits) # <<>> => pc' = "apply"]_vars

\* C11 witness: one edit of the plan was skipped and reported, and the next
\* one, whose text is not at its recorded offset but elsewhere, is still to
\* be applied.
C11_SkippedThenSearch ==
  /\ pc = "apply" /\ cmd = "merge"
  /\ out = <<"skipped">>
  /\ edits # <<>>
  /\ ~AtSpan(text, Head(edits))
  /\ Find(text, Head(edits).old) >= 0

\* ------------------------------------------------------------ claims: merge order
\* The entries of abs that merge is to retain next to the entries own: those
\* without data-path, and the first entry of each data-path that own lacks.
Kept(own, abs) ==
  LET idx == {i \in 1..Len(abs) :
                \/ abs[i].path = <<>>
                \/ /\ \A j \in 1..Len(own) : own[j].path # abs[i].path
                   /\ \A j \in 1..(i - 1) : abs[j].path # abs[i].path}
  IN  [n \in 1..Cardinality(idx) |->
         abs[CHOOSE i \in idx : Cardinality({j \in idx : j < i}) = n - 1]]

\* C12: after merge the sections stand in the order in which their names
\* first occur in the catalog read, the survivor of each duplicate group is
\* the first section of the group, and its entries are its own entries in
\* their order followed by the retained entries of the absorbed sections, in
\* the order of those sections and of the entries within them.
C12_SurvivorOrder ==
  MergeApplied =>
    LET before == extract_sections(orig)
        after == extract_sections(text)
    IN  /\ [i \in 1..Len(after) |-> normalize_name(after[i].title)] = KeysInOrder(before, {})
        /\ \A n \in 1..Len(DupKeys(before)) :
             LET group == GroupOf(before, DupKeys(before)[n])
                 left == GroupOf(after, DupKeys(before)[n])
             IN  /\ Len(left) = 1
                 /\ left[1].title = group[1].title
                 /\ left[1].li_list =
                      group[1].li_list \o Kept(group[1].li_list, AllLis(Tail(group)))

\* ------------------------------------------------------------ claims: sync inserts
\* The user's files that sync is to consider: no dotfile, no temporary
\* artifact, no backup of the catalog.
UserFiles ==
  {[dir |-> "doc", name |-> n] : n \in {d \in docFiles : ~Hidden(d) /\ ~SyncSkipped(d)}}
    \cup {[dir |-> "md", name |-> n] : n \in {m \in mdFiles : ~Hidden(m)}}

\* The number of entries of a text with the given data-path.
EntryCount(txt, path) == Cardinality({i \in 1..Len(txt) : txt[i].k = "li" /\ txt[i].path = path})

\* C13: once sync --yes-to-all has committed, every file of the document
\* directory or md_outputs that had no entry in the catalog read has exactly
\* one entry whose data-path is its relative path, and list-unreferenced
\* finds no unreferenced file.
C13_SyncInsertsAll ==
  (Committed /\ cmd = "sync" /\ yes_to_all) =>
    /\ \A f \in UserFiles :
         EntryCount(orig, RelOf(f)) = 0 => EntryCount(index, RelOf(f)) = 1
    /\ list_unreferenced_impl(docFiles, mdFiles, backups, index) = <<>>

\* ------------------------------------------------------------ reassign alone
\* An entry whose type holds an ampersand, as sync writes it for a file
\* with the extension "r&d".
LiRD == Li(RelDoc(FileB), <<>>, <<"R", "&", "amp;", "D", " ", "·", " ", "Guides">>)

ReassignCatalogs ==
  {Catalog(<<Section(<<"Guides">>, <<LiA, LiB>>, TRUE), Section(<<"Docs">>, <<>>, TRUE)>>),
   Catalog(<<Section(<<"Guides">>, <<LiRD>>, TRUE), Section(<<"Docs">>, <<LiA>>, TRUE)>>)}

InitReassign ==
  /\ InitCommon
  /\ exists = TRUE
  /\ docFiles = {} /\ mdFiles = {}
  /\ index \in ReassignCatalogs

NextReassign ==
  \/ ReassignStart \/ ReassignQuit \/ ReassignMove \/ ConfirmYes \/ ConfirmNo
  \/ Backup \/ BackupFails \/ WriteOpen \/ WriteData \/ WriteFails

SpecReassign == InitReassign /\ [][NextReassign]_vars

\* ------------------------------------------------------------ claims: reassign
\* reassign has staged a move; Req is the request.
Staged == cmd = "reassign" /\ edits # <<>>
Req == Head(edits)

\* The entries of the source category as read, and the offsets in it (from
\* 0) of the entries the request names: entry number i + 1 exists.
SrcBefore == EntriesOf(orig, find_categories(orig)[Req.src + 1])
Chosen == {i \in Req.idxs : 0 <= i /\ i < Len(SrcBefore)}

\* The destination category in the staged text (offset from 1, 0 if none).
Dest ==
  IF Req.new_name = <<>> THEN Req.tgt + 1 ELSE CatObj(find_categories(text), Req.new_name)

\* The elements of s at the offsets idx (from 1), in order.
SubseqAt(s, idx) ==
  [n \in 1..Cardinality(idx) |-> s[CHOOSE i \in idx : Cardinality({j \in idx : j < i}) = n - 1]]

\* The entries of category c (offset from 1) of a text; none if there is no
\* such category.
EntriesAt(txt, c) ==
  IF c \in 1..Len(find_categories(txt)) THEN EntriesOf(txt, find_categories(txt)[c]) ELSE <<>>

\* C14: after a move between two categories the destination exists (a new
\* one was created when no category had that name), the source holds its
\* unselected entries, every other category but the destination holds what
\* it held, the destination holds what it held and one more entry for each
\* selected one, and a selected entry that was once in the catalog is once
\* in it, in the destination.
C14_Relocated ==
  (Staged /\ Req.src + 1 # Dest) =>
    /\ Dest \in 1..Len(find_categories(text))
    /\ (Req.new_name # <<>> /\ CatObj(find_categories(orig), Req.new_name) = 0) =>
         Len(find_categories(text)) = Len(find_categories(orig)) + 1
    /\ EntriesAt(text, Req.src + 1)
         = SubseqAt(SrcBefore, {i + 1 : i \in (0..(Len(SrcBefore) - 1)) \ Chosen})
    /\ \A c \in (1..Len(find_categories(orig))) \ {Req.src + 1, Dest} :
         EntriesAt(text, c) = EntriesAt(orig, c)
    /\ IsSubsequence(EntriesAt(orig, Dest), EntriesAt(text, Dest))
    /\ Len(EntriesAt(text, Dest)) = Len(EntriesAt(orig, Dest)) + Cardinality(Chosen)
    /\ \A i \in Chosen :
         EntryCount(orig, SrcBefore[i + 1].path) = 1 =>
           /\ EntryCount(text, SrcBefore[i + 1].path) = 1
           /\ \E n \in 1..Len(EntriesAt(text, Dest)) :
                EntriesAt(text, Dest)[n].path = SrcBefore[i + 1].path

\* C15: a moved entry whose tags read '<TYPE> · <Category>' has the tags
\* '<TYPE> · <destination>' afterwards, with the type it had.
C15_TypeKept ==
  Staged =>
    \A i \in Chosen :
      LET li == SrcBefore[i + 1]
          dot == Find(li.tags, <<"·">>)
      IN  (dot >= 0 /\ EntryCount(orig, li.path) = 1 /\ Dest # 0) =>
            \E n \in 1..Len(EntriesAt(text, Dest)) :
              /\ EntriesAt(text, Dest)[n].path = li.path
              /\ EntriesAt(text, Dest)[n].tags
                   = Strip(Slice(li.tags, 0, dot)) \o <<" ", "·", " ">>
                       \o html_escape(find_categories(text)[Dest].name)

\* C16: a request whose every index lies past the last entry of the source
\* category is reported, leaves the buffer as the catalog was read, and goes
\* neither to the backup nor to the write.
C16_NothingToMove ==
  (Staged /\ \A i \in Req.idxs : i >= Len(SrcBefore)) =>
    /\ out # <<>>
    /\ text = orig
    /\ pc \notin {"backup", "write", "writing"}
    /\ bak = <<>>
    /\ index = orig

\* ------------------------------------------------------ delete-orphans alone
\* The entry sync writes for the file q&z.txt: its data-path is escaped.
LiAmp == Li(html_escape(RelDoc(FileAmp)), <<>>, <<"TXT", " ", "·", " ", "Guides">>)

\* The catalogs of the delete-orphans model: one category with up to
\* MaxFiles entries, followed by a state block (well-formed or not) over some
\* of the paths, or by none.
OrphanCatalogs ==
  LET heads == {Catalog(<<Section(<<"Guides">>, lis, TRUE)>>) :
                  lis \in SeqsUpTo({LiA, LiB, LiAmp}, MaxFiles)}
      blocks == {State(fs, ok) : fs \in SUBSET {RelDoc(FileA), RelDoc(FileB), RelDoc(FileAmp)},
                                 ok \in BOOLEAN}
  IN  heads \cup {h \o <<b>> : h \in heads, b \in blocks}

InitOrphans ==
  /\ InitCommon
  /\ exists = TRUE
  /\ docFiles = {} /\ mdFiles = {}
  /\ index \in OrphanCatalogs

NextOrphans ==
  DeleteOrphans \/ Backup \/ BackupFails \/ WriteOpen \/ WriteData \/ WriteFails

SpecOrphans == InitOrphans /\ [][NextOrphans]_vars

\* ------------------------------------------------------ claims: delete-orphans
\* A text holds a state block that is valid JSON.
WellFormedState(txt) ==
  /\ FirstTok(txt, "state", 0) >= 0
  /\ txt[FirstTok(txt, "state", 0) + 1].valid

\* The paths of the records of the state block of a text.
StateFiles(txt) == txt[FirstTok(txt, "state", 0) + 1].files

\* The paths the entries of a text stand for: the values of their data-path
\* attributes.
EntryPaths(txt) == {html_unescape(q) : q \in DataPaths(txt)}

\* The second of two delete-orphans runs in a row, the first one ended
\* normally.
SecondDelete ==
  /\ cmd = "delete_orphans"
  /\ prev.cmd = "delete_orphans" /\ prev.rc = 0

\* C17: the staged state holds exactly the records of the state read whose
\* path has an entry in the catalog, every token outside the state block is
\* as read, and a second run right after finds no orphan and writes nothing.
C17_OrphansOnly ==
  /\ (cmd = "delete_orphans" /\ WellFormedState(orig)) =>
       /\ Len(text) = Len(orig)
       /\ \A i \in 1..Len(orig) : orig[i].k # "state" => text[i] = orig[i]
       /\ StateFiles(text) = StateFiles(orig) \cap EntryPaths(orig)
  /\ (SecondDelete /\ WellFormedState(orig)) =>
       Orphans(orig) = {} /\ pc = "idle" /\ index = orig /\ bak = <<>>

\* C19: a run over a catalog whose state block is missing or is not valid
\* JSON ends normally, as over an empty store, and changes nothing.
C19_CorruptStateIsEmpty ==
  (cmd = "delete_orphans" /\ exists /\ ~WellFormedState(orig)) =>
    /\ pc = "idle"
    /\ rc = 0
    /\ text = orig
    /\ index = orig
    /\ bak = <<>>

\* ------------------------------------------------------ claims: no category
\* A writing command that looks for the category sections.
NeedsCategories == cmd \in {"sync", "reassign", "connect", "connect_impl"}

\* C18: on a catalog without category section sync, reassign and connect
\* stop with a status other than 0, with no backup made and the catalog
\* not written.
C18_NoCategoryStops ==
  (NeedsCategories /\ exists /\ find_categories(orig) = <<>>) =>
    /\ pc \in {"idle", "confirm"}
    /\ pc = "idle" => rc # 0
    /\ bak = <<>>
    /\ index = orig

\* ------------------------------------------------------ scripts run in-process
\* The script paths of the model: the manager, the sync wrapper
\* (tools_sync_index_with_fs.py), the original sync script, a symbolic link
\* to the wrapper, one to the manager, and a path where no file is.
ScriptPaths == {"manager", "wrapper", "orig", "link_wrapper", "link_manager", "absent"}

\* Path.resolve(): symbolic links are followed.
resolve(path) ==
  CASE path = "link_wrapper" -> "wrapper"
    [] path = "link_manager" -> "manager"
    [] OTHER -> path

\* Path.exists()
path_exists(path) == path # "absent"

\* run_script_in_process without the comparison with the caller.
RunUnguarded(this_file, script_path) ==
  IF ~path_exists(resolve(script_path)) THEN "not_found" ELSE "run"

\* run_script_in_process, up to the call of runpy: the script is refused
\* when its resolved path is the resolved path of the calling file, and
\* when there is no such file.
run_script_in_process(this_file, script_path) ==
  IF resolve(script_path) = resolve(this_file) THEN "refused"
  ELSE IF ~path_exists(resolve(script_path)) THEN "not_found"
  ELSE "run"

\* A script running in this process: file is its __file__, asked the path
\* it passed to run_script_in_process ("none" before), ret what the call
\* returned (-1 before).
Frame(f) == [file |-> f, asked |-> "none", ret |-> 0 - 1]

\* The status a script ends with when none of its configured paths exists:
\* the wrapper 1, the manager 2.
NoneFound(f) == IF resolve(f) = "wrapper" THEN 1 ELSE 2

\* The stack after its innermost script ended with a status: its caller's
\* call returns that status.
Returned(st, code) ==
  IF Len(st) <= 1 THEN <<>>
  ELSE [SubSeq(st, 1, Len(st) - 1) EXCEPT ![Len(st) - 1].ret = code]

\* The innermost script ends with a status; the process ends with it when
\* it was the outermost one.
ScriptEnds(code) ==
  /\ stack' = Returned(stack, code)
  /\ IF Len(stack) = 1 THEN Exit(code) ELSE UNCHANGED <<pc, rc>>

\* The manager's sync command or the sync wrapper is started, under its own
\* name or through a symbolic link.
CycleStart ==
  \E f \in {"manager", "wrapper", "link_manager", "link_wrapper"} :
    /\ Begin("cycle", FALSE, FALSE)
    /\ NothingRead
    /\ out' = <<>>
    /\ stack' = <<Frame(f)>>
    /\ pc' = "inproc"
    /\ UNCHANGED <<disk, docFiles, mdFiles, patterns, ran, clock, rc>>

\* main() of the wrapper and the sync branch of the manager: the first of
\* the configured paths that exists is handed to run_script_in_process, and
\* the script exits with what it returns. A manager started by the wrapper
\* gets no subcommand and exits 2 in ScriptExit instead.
InProcess ==
  /\ pc = "inproc"
  /\ stack # <<>>
  /\ LET top == stack[Len(stack)]
     IN  /\ top.asked = "none"
         /\ resolve(top.file) \in {"manager", "wrapper"}
         /\ ~(resolve(top.file) = "manager" /\ Len(stack) > 1)
         /\ \E script_path \in ScriptPaths :
              IF ~path_exists(script_path)
                THEN ScriptEnds(NoneFound(top.file)) /\ UNCHANGED out
              ELSE IF run_script_in_process(top.file, script_path) = "run"
                THEN /\ stack' = Append([stack EXCEPT ![Len(stack)].asked = script_path],
                                        Frame(resolve(script_path)))
                     /\ UNCHANGED <<pc, rc, out>>
                ELSE /\ stack' = [stack EXCEPT ![Len(stack)].asked = script_path,
                                               ![Len(stack)].ret = 2]
                     /\ out' = Append(out, run_script_in_process(top.file, script_path))
                     /\ UNCHANGED <<pc, rc>>
  /\ UNCHANGED <<disk, docFiles, mdFiles, patterns, ran, clock, runs, cmd, dry_run, yes_to_all, prev, orig,
                 text, edits, bak, walk>>

\* The innermost script exits: with what its call returned, with 2 for a
\* manager without subcommand, with 0 or 1 for the original sync script.
ScriptExit ==
  /\ pc = "inproc"
  /\ stack # <<>>
  /\ LET top == stack[Len(stack)]
     IN  IF top.ret >= 0 THEN ScriptEnds(top.ret)
         ELSE IF resolve(top.file) = "manager" /\ Len(stack) > 1 THEN ScriptEnds(2)
         ELSE /\ resolve(top.file) = "orig"
              /\ \E code \in {0, 1} : ScriptEnds(code)
  /\ UNCHANGED <<disk, docFiles, mdFiles, patterns, ran, clock, runs, cmd, dry_run, yes_to_all, prev, locals>>

InitCycle ==
  /\ InitCommon
  /\ exists = TRUE
  /\ index = Catalog(<<>>)
  /\ docFiles = {} /\ mdFiles = {}

NextCycle == CycleStart \/ InProcess \/ ScriptExit

SpecCycle == InitCycle /\ [][NextCycle]_vars

\* ------------------------------------------------------ claims: in-process
\* A script asked run_script_in_process for its own file.
AskedSelf(fr) == fr.asked # "none" /\ resolve(fr.asked) = resolve(fr.file)

\* C20: no script runs in-process directly under a caller with the same
\* resolved path, and a script that passed its own resolved path to
\* run_script_in_process got 2 back with nothing run under it.
C20_NoSelfInProcess ==
  /\ \A i \in 2..Len(stack) : resolve(stack[i].file) # resolve(stack[i - 1].file)
  /\ \A i \in 1..Len(stack) : AskedSelf(stack[i]) => (stack[i].ret = 2 /\ i = Len(stack))

\* A script has asked for its own file through a symbolic link, and has
\* been refused.
C20_RefusedThroughLink ==
  \E i \in 1..Len(stack) :
    AskedSelf(stack[i]) /\ stack[i].asked # stack[i].file /\ stack[i].ret = 2

\* ------------------------------------------------------------ connect alone
FileZ == <<"z", ".", "pdf">>
FileMdZ == <<"z", ".", "md">>
LiZ == Li(RelDoc(FileZ), RelDoc(FileZ), <<"PDF", " ", "·", " ", "Guides">>)

\* An entry as sync and connect write it, with the white space around it.
Padded(li) == <<WS, li, WS>>

\* The catalogs of the connect model: the entries of the two PDFs in one
\* category, in either order, or in two; one PDF without entry; one Markdown
\* file connected already.
ConnectCatalogs ==
  {Catalog(<<Section(<<"Guides">>, Padded(LiZ) \o Padded(LiA), TRUE)>>),
   Catalog(<<Section(<<"Guides">>, Padded(LiA) \o Padded(LiZ), TRUE)>>),
   Catalog(<<Section(<<"Guides">>, Padded(LiA), TRUE), Section(<<"Docs">>, Padded(LiZ), TRUE)>>),
   Catalog(<<Section(<<"Guides">>, Padded(LiZ), TRUE), Section(<<"Docs">>, Padded(LiA), TRUE)>>),
   Catalog(<<Section(<<"Guides">>, Padded(LiA), TRUE)>>),
   Catalog(<<Section(<<"Guides">>, Padded(LiA) \o Padded(LiMd), TRUE)>>)}

InitConnect ==
  /\ InitCommon
  /\ exists = TRUE
  /\ index \in ConnectCatalogs
  /\ docFiles = {FileA, FileZ}
  /\ mdFiles \in SUBSET {FileMd, FileMdZ}

NextConnect ==
  \/ ConnectStart \/ ConnectStep
  \/ Backup \/ BackupFails \/ WriteOpen \/ WriteData \/ WriteFails

SpecConnect == InitConnect /\ [][NextConnect]_vars

\* ------------------------------------------------------------ claims: connect
\* A connect command has read the catalog and is through its loop.
ConnectPassed ==
  /\ cmd \in {"connect", "connect_impl"}
  /\ exists
  /\ pc # "connect_loop"

\* The PDF of the same stem as a Markdown file.
PdfOf(name) == RelDoc(Stem(name) \o <<".", "pdf">>)

\* The first category (offset from 1) of a text with an entry whose
\* data-path is the given one, 0 if there is none.
HolderOf(txt, path) ==
  LET hits == {c \in 1..Len(find_categories(txt)) :
                 \E n \in 1..Len(EntriesAt(txt, c)) : EntriesAt(txt, c)[n].path = path}
  IN  IF hits = {} THEN 0 ELSE CHOOSE c \in hits : \A d \in hits : c <= d

\* C21: after the loop of connect every Markdown file of md_outputs that had
\* no entry in the catalog read, and whose PDF had one, has exactly one entry
\* in the buffer, with the data-pdf of that PDF, in the category that holds
\* the entry of the PDF.
C21_ConnectsEach ==
  ConnectPassed =>
    \A name \in mdFiles :
      (EntryCount(orig, RelMd(name)) = 0 /\ HolderOf(orig, PdfOf(name)) # 0) =>
        /\ EntryCount(text, RelMd(name)) = 1
        /\ HolderOf(text, RelMd(name)) = HolderOf(orig, PdfOf(name))
        /\ \A i \in 1..Len(text) :
             (text[i].k = "li" /\ text[i].path = RelMd(name)) => text[i].pdf = PdfOf(name)

\* ------------------------------------------------------------ claims: remove
\* The catalog text without the entries whose data-path or data-pdf matches
\* one of the patterns.
WithoutMatching(txt, pats) ==
  SelectSeq(txt, LAMBDA t : ~(t.k = "li" /\ li_matches(t, pats)))

\* C22: the catalog remove has written is the text it read without the
\* entries that match a pattern, everything else in place.
C22_RemovesMatching ==
  (cmd = "remove" /\ Committed) => index = WithoutMatching(orig, patterns)

\* ------------------------------------------------------ claims: order of a move
\* C23: after a move of entries that all exist, from one category to
\* another, the destination holds the data-paths it held, followed by those
\* of the moved entries in the order they had in the source.
C23_OrderKept ==
  (Staged /\ Req.src + 1 # Dest /\ Dest # 0 /\ Chosen = Req.idxs) =>
    PathsOf(EntriesAt(text, Dest))
      = PathsOf(EntriesAt(orig, Dest))
          \o PathsOf(SubseqAt(SrcBefore, {i + 1 : i \in Chosen}))

\* ------------------------------------------------------ claims: place of an insertion
\* The name in the heading of the section that is open at offset pos of a
\* text, <<>> when pos lies in no section.
EnclosingName(txt, pos) ==
  LET opens == {p \in 1..Min(pos, Len(txt)) :
                  /\ txt[p].k = "sec"
                  /\ \A r \in p..Min(pos, Len(txt)) : txt[r].k # "esec"}
  IN  IF opens = {} THEN <<>>
      ELSE LET p == CHOOSE q \in opens : \A r \in opens : r <= q
               h == FirstNonWs(txt, p)
           IN  IF h >= 0 /\ txt[h + 1].k = "h2" THEN html_unescape(Strip(txt[h + 1].name))
               ELSE <<>>

\* The category an entry written by sync was put in by the user, read from
\* its tags '<TYPE> · <category>'.
ChosenOf(li) == html_unescape(SliceFrom(li.tags, Find(li.tags, <<"·">>) + 2))

\* A piece of text was inserted at offset pos of buf and gave new.
InsertedAt(buf, new, pos) ==
  /\ Len(new) > Len(buf)
  /\ new = InsertAt(buf, pos, Slice(new, pos, pos + Len(new) - Len(buf)))

\* C24: an insertion of sync that creates no section puts the entry right
\* before a closing </ul>, inside the section of the category chosen for it.
C24_InsertedBeforeClose ==
  [][(pc = "sync_loop" /\ todo # <<>> /\ todo' = Tail(todo)) =>
       \E pos \in 0..Len(text) :
         /\ InsertedAt(text, text', pos)
         /\ LET piece == Slice(text', pos, pos + Len(text') - Len(text))
            IN  FirstTok(piece, "sec", 0) < 0 =>
                  /\ pos < Len(text)
                  /\ text[pos + 1].k = "eul"
                  /\ FirstTok(piece, "li", 0) >= 0
                  /\ SameCategory(EnclosingName(text, pos),
                                  ChosenOf(piece[FirstTok(piece, "li", 0) + 1]))]_vars

\* ------------------------------------------------------ claims: merge keeps entries
\* C25: every data-path of an entry of some section of the catalog read by
\* merge is the data-path of an entry of the merged text.
C25_MergeKeepsPaths ==
  MergeApplied =>
    \A n \in 1..Len(extract_sections(orig)) :
      Range(PathsOf(extract_sections(orig)[n].li_list)) \subseteq DataPaths(text) \cup {<<>>}

\* ------------------------------------------------------------ claims: backups
\* C26: every commit leaves a backup holding the catalog as it was just before
\* the commit, and no later step replaces or removes a backup that an earlier
\* commit made, however little time passed between the two commits.
C26_BackupsKept ==
  [][/\ \A b \in backups : b \in backups'
     /\ (pc = "writing" /\ pc' = "idle" /\ rc' = 0) => BackupMade']_vars

\* ------------------------------------------------------------ dms auto
\* steps of cmd_auto, by name.
steps == <<"Scan", "Process Images", "Summarize", "Review", "Apply">>

\* What a step script may return: 0, or a failing status (1 also stands for
\* run_dms_script not finding the script).
StepCodes == {0, 1, 2}

\* What the user may type at "Continue anyway? [y/N]: ".
Answers == {<<"y">>, <<" ", "Y", " ">>, <<"n">>, <<>>, <<"y", "e", "s">>}

\* The step function raises before it runs its script: cmd_summarize reads
\* args.dry_run and args.model, which the parser of 'auto' does not define.
Raises(step_name) == step_name = "Summarize"

\* One round of the loop of cmd_auto, as far as the record of it goes.
Round(step_name, code, raised) ==
  [name |-> step_name, rc |-> code, raised |-> raised, asked |-> FALSE, choice |-> <<>>]

\* The user let the workflow go on after this round.
Continued(r) == r.rc = 0 \/ (r.asked /\ r.choice = <<"y">>)

\* main() with the command 'auto', up to the loop of cmd_auto: without a
\* Doc/ directory the manager returns 1 at once.
AutoStart ==
  \E doc_dir \in BOOLEAN :
    /\ Begin("auto", FALSE, FALSE)
    /\ NothingRead
    /\ out' = <<>>
    /\ ran' = <<>>
    /\ IF doc_dir THEN pc' = "auto_step" /\ UNCHANGED rc ELSE Exit(1)
    /\ UNCHANGED <<disk, docFiles, mdFiles, stack, patterns, clock>>

\* rc = step_fn(): the next step is started; an exception of the step
\* function ends the process with status 1.
AutoStep ==
  /\ pc = "auto_step"
  /\ Len(ran) < Len(steps)
  /\ LET step_name == steps[Len(ran) + 1]
     IN  IF Raises(step_name)
           THEN ran' = Append(ran, Round(step_name, 1, TRUE)) /\ Exit(1)
           ELSE \E code \in StepCodes :
                  /\ ran' = Append(ran, Round(step_name, code, FALSE))
                  /\ IF code # 0 THEN pc' = "auto_ask" /\ UNCHANGED rc
                     ELSE IF Len(ran) + 1 = Len(steps) THEN Exit(0)
                     ELSE UNCHANGED <<pc, rc>>
  /\ UNCHANGED <<disk, docFiles, mdFiles, stack, patterns, clock, runs, cmd, dry_run,
                 yes_to_all, prev, locals>>

\* choice = input("Continue anyway? [y/N]: ").strip().lower(); anything but
\* 'y' returns rc.
AutoAnswer ==
  /\ pc = "auto_ask"
  /\ \E line \in Answers :
       LET choice == Lower(Strip(line))
       IN  /\ ran' = [ran EXCEPT ![Len(ran)].asked = TRUE, ![Len(ran)].choice = choice]
           /\ IF choice # <<"y">> THEN Exit(ran[Len(ran)].rc)
              ELSE IF Len(ran) = Len(steps) THEN Exit(0)
              ELSE pc' = "auto_step" /\ UNCHANGED rc
  /\ UNCHANGED <<disk, docFiles, mdFiles, stack, patterns, clock, runs, cmd, dry_run,
                 yes_to_all, prev, locals>>

\* input() at end of input raises EOFError: the process ends with status 1.
AutoNoInput ==
  /\ pc = "auto_ask"
  /\ Exit(1)
  /\ UNCHANGED <<disk, files, clock, runs, cmd, dry_run, yes_to_all, prev, locals>>

InitAuto ==
  /\ InitCommon
  /\ exists = TRUE
  /\ index = Catalog(<<>>)
  /\ docFiles = {} /\ mdFiles = {}

NextAuto == AutoStart \/ AutoStep \/ AutoAnswer \/ AutoNoInput

SpecAuto == InitAuto /\ [][NextAuto]_vars

\* The workflow was stopped by the user at its last round.
Declined == ran # <<>> /\ ran[Len(ran)].asked /\ ran[Len(ran)].choice # <<"y">>

\* The workflow got through all its steps.
Completed == Len(ran) = Len(steps) /\ Continued(ran[Len(ran)])

\* C27: the steps of 'auto' run in the order Scan, Process Images, Summarize,
\* Review, Apply; a step is started only when every earlier step returned 0
\* or the user answered 'y' after its failure; the workflow stops short of
\* Apply only where the user declined, and then returns the failing step's
\* status.
C27_AutoInOrder ==
  cmd = "auto" =>
    /\ Len(ran) <= Len(steps)
    /\ \A n \in 1..Len(ran) : ran[n].name = steps[n]
    /\ \A n \in 1..Len(ran) : \A m \in 1..(n - 1) : Continued(ran[m])
    /\ (pc = "idle" /\ ran # <<>>) =>
         \/ Completed /\ rc = 0
         \/ Declined /\ rc = ran[Len(ran)].rc /\ rc # 0
         \/ ran[Len(ran)].rc # 0 /\ ~ran[Len(ran)].asked /\ ~ran[Len(ran)].raised

\* ------------------------------------------------------------ claims: merge again
\* C28: merge is idempotent: a merge started on the catalog that a merge has
\* just written finds no duplicate category, plans no edit, leaves its text
\* as read and ends with status 0 without backup or write.
C28_MergeIdempotent ==
  [][(cmd = "merge" /\ Committed /\ cmd' = "merge" /\ runs' # runs) =>
       /\ DupKeys(extract_sections(index)) = <<>>
       /\ edits' = <<>> /\ text' = index
       /\ pc' = "idle" /\ rc' = 0
       /\ disk' = disk]_vars

\* C28 witness: the second of two merges has ended without edit on the
\* catalog that the first one wrote after merging duplicates.
C28_MergedTwice ==
  /\ cmd = "merge" /\ prev.cmd = "merge" /\ runs = 2
  /\ pc = "idle" /\ rc = 0 /\ bak = <<>>
  /\ orig = index /\ text = index
  /\ \E b \in backups : DupKeys(extract_sections(b.content)) # <<>>

\* ------------------------------------------------------------ category lookup
\* Category names as they stand in a heading or are typed at a prompt.
LookupNames ==
  {<<"My", " ", "Docs">>, <<"My", " ", " ", "Docs">>, <<" ", "my", " ", "docs", " ">>,
   <<"Guides">>, <<"guides", " ">>, <<"Docs">>}

LookupCatalogs ==
  {Catalog(<<Section(a, <<>>, TRUE)>>) : a \in LookupNames}
    \cup {Catalog(<<Section(a, <<>>, TRUE), Section(b, <<>>, TRUE)>>) : a, b \in LookupNames}

\* The lookup of sync (cat_obj) and of reassign (tgt_idx of a new name) on
\* the categories of the catalog, for a destination name the user gave.
LookupCategory ==
  \E chosen_cat \in LookupNames :
    /\ Begin("lookup", FALSE, FALSE)
    /\ orig' = index
    /\ text' = index
    /\ edits' = <<[typ |-> "lookup", chosen_cat |-> chosen_cat]>>
    /\ categories' = find_categories(index)
    /\ cat_names' = [i \in 1..Len(find_categories(index)) |-> find_categories(index)[i].name]
    /\ todo' = <<>>
    /\ inserted' = <<>>
    /\ out' = <<CatObj(find_categories(index), chosen_cat)>>
    /\ Exit(0)
    /\ UNCHANGED <<disk, files, clock>>

InitLookup ==
  /\ InitCommon
  /\ exists = TRUE
  /\ index \in LookupCatalogs
  /\ docFiles = {} /\ mdFiles = {}

NextLookup == LookupCategory

SpecLookup == InitLookup /\ [][NextLookup]_vars

\* The destination name was looked up among the categories of the catalog.
LookedUp == cmd = "lookup" /\ pc = "idle" /\ runs > 0

\* C29: the lookup of sync and reassign finds a category for a destination
\* name exactly when some category has the normalized key of that name, and
\* then the category found is the first one of that key.
C29_LookupIsMergeKey ==
  LookedUp =>
    LET key == normalize_name(edits[1].chosen_cat)
        same == {i \in 1..Len(cat_names) : normalize_name(cat_names[i]) = key}
    IN  /\ out[1] # 0 <=> same # {}
        /\ out[1] # 0 => (out[1] \in same /\ \A i \in same : out[1] <= i)

\* ------------------------------------------------------------ the sync wrapper
\* The paths --converter, --orig-script and --fallback-script may name.
WrapperPaths == {"orig", "fallback", "converter", "wrapper", "link_wrapper", "absent"}

\* How a script run by runpy may end: by reaching its end, by sys.exit with
\* no code, a number or a message, or by an exception.
ScriptEndings == {"return", "exit_none", "exit_0", "exit_1", "exit_2", "exit_msg", "raise"}

\* The exit status of a script that ends so when it is run by itself.
StatusAlone(e) ==
  CASE e \in {"return", "exit_none", "exit_0"} -> 0
    [] e = "exit_2" -> 2
    [] OTHER -> 1

\* What run_script_in_process returns for a script that ends so: 0 after
\* run_path, int(code) of a SystemExit (0 for None, 1 when int() fails),
\* 1 for any other exception.
RunReturns(e) ==
  CASE e = "return" -> 0
    [] e = "exit_none" -> 0
    [] e = "exit_0" -> 0
    [] e = "exit_1" -> 1
    [] e = "exit_2" -> 2
    [] e = "exit_msg" -> 1
    [] OTHER -> 1

\* One line of what the wrapper did: a script it ran (or was refused to run)
\* and the status that came back.
Did(what, path, code) == [what |-> what, path |-> path, rc |-> code]

\* main() of the wrapper up to the conversion: the arguments are parsed.
WrapperStart ==
  \E this_file \in {"wrapper", "link_wrapper"}, convert_pdfs \in BOOLEAN,
     converter \in {"converter", "wrapper", "absent"},
     orig_script \in WrapperPaths \ {"converter"},
     fallback_script \in WrapperPaths \ {"converter"} :
    /\ Begin("wrapper", FALSE, FALSE)
    /\ orig' = <<>> /\ text' = <<>>
    /\ categories' = <<>> /\ cat_names' = <<>> /\ todo' = <<>> /\ inserted' = <<>>
    /\ edits' = <<[typ |-> "args", convert_pdfs |-> convert_pdfs, converter |-> converter,
                   orig_script |-> orig_script, fallback_script |-> fallback_script]>>
    /\ out' = <<>>
    /\ stack' = <<Frame(this_file)>>
    /\ pc' = IF convert_pdfs THEN "convert" ELSE "select"
    /\ UNCHANGED <<disk, docFiles, mdFiles, patterns, ran, clock, rc>>

\* if args.convert_pdfs: the converter is run in-process when its file is
\* there; whatever comes of it, main() goes on to the sync scripts.
WrapperConvert ==
  /\ pc = "convert"
  /\ LET conv == edits[1].converter
         asked == run_script_in_process(stack[1].file, conv)
     IN  IF asked # "run"
           THEN /\ out' = Append(out, Did(IF path_exists(conv) THEN asked ELSE "not_found", conv, 2))
                /\ UNCHANGED mdFiles
           ELSE \E e \in ScriptEndings, md \in {mdFiles, mdFiles \cup {FileMd}} :
                  /\ out' = Append(out, Did("converter", conv, RunReturns(e)))
                  /\ mdFiles' = md
  /\ pc' = "select"
  /\ UNCHANGED <<disk, docFiles, stack, patterns, ran, clock, runs, cmd, dry_run, yes_to_all,
                 prev, rc, orig, text, edits, bak, walk>>

\* A wrapper that prefers the fallback script to the orig script.
FallbackFirst(orig_script, fallback_script) ==
  IF path_exists(fallback_script) THEN fallback_script
  ELSE IF path_exists(orig_script) THEN orig_script
  ELSE "absent"

\* The script main() hands to run_script_in_process: orig if it exists,
\* else fallback if it exists, else none.
SelectedScript(orig_script, fallback_script) ==
  IF path_exists(orig_script) THEN orig_script
  ELSE IF path_exists(fallback_script) THEN fallback_script
  ELSE "absent"

\* The rest of main(): the selected script is run in-process and the
\* wrapper exits with what the call returned; with no script it exits 1.
WrapperSync ==
  /\ pc = "select"
  /\ LET script == SelectedScript(edits[1].orig_script, edits[1].fallback_script)
         asked == run_script_in_process(stack[1].file, script)
     IN  IF ~path_exists(script) THEN out' = out /\ Exit(1)
         ELSE IF asked # "run" THEN out' = Append(out, Did(asked, script, 2)) /\ Exit(2)
         ELSE \E e \in ScriptEndings :
                /\ out' = Append(out, Did("sync", script, StatusAlone(e)))
                /\ Exit(RunReturns(e))
  /\ stack' = <<>>
  /\ UNCHANGED <<disk, docFiles, mdFiles, patterns, ran, clock, runs, cmd, dry_run, yes_to_all,
                 prev, orig, text, edits, bak, walk>>

InitWrapper ==
  /\ InitCommon
  /\ exists = TRUE
  /\ index = Catalog(<<>>)
  /\ docFiles = {FileA} /\ mdFiles = {}

NextWrapper == WrapperStart \/ WrapperConvert \/ WrapperSync

SpecWrapper == InitWrapper /\ [][NextWrapper]_vars

\* ------------------------------------------------------------ claims: wrapper
\* The wrapper has ended.
WrapperDone == cmd = "wrapper" /\ pc = "idle" /\ runs > 0 /\ edits # <<>>

\* The sync implementations the wrapper ran, in order.
SyncsRun == SelectSeq(out, LAMBDA d : d.what = "sync")

\* The conversion was asked for and failed or was skipped.
ConversionFailed ==
  /\ edits # <<>> /\ edits[1].convert_pdfs
  /\ out # <<>> /\ out[1].what # "sync" /\ out[1].rc # 0

====
